---------------------------- MODULE Spec2Model ----------------------------
(***************************************************************************)
(* Model of the matrix algebra of the ray tracer (src/src/matrix/*.rs).    *)
(*                                                                         *)
(* Numbers.  The program computes in f64.  The model computes in exact     *)
(* rationals <<num, den>> (den > 0, lowest terms): every f64 operation on  *)
(* the small integers used as inputs here is exact, and a division is kept *)
(* as the exact quotient.  Rounding error of f64 is outside the model.     *)
(*                                                                         *)
(* Indices.  The program indexes rows and columns from 0; TLA+ sequences   *)
(* start at 1, so cell (row, col) is elements[row + 1][col + 1].           *)
(*                                                                         *)
(* Panics.  A failed assertion or an index out of range aborts the call.   *)
(* For every operation f that can abort, f_ok(...) is the conjunction of   *)
(* the checks on its path and f(...) is its value when f_ok holds.  An     *)
(* action records an aborted call as last.panicked = TRUE.                 *)
(***************************************************************************)
EXTENDS Integers, Sequences, FiniteSets, TLC

VARIABLES
    m,       \* the Matrix object the calls are made on
    last,    \* the most recent call on it: operation, arguments, outcome
    sets,    \* number of successful Matrix::set calls made on m
    base,    \* the transform the fluent builder chain started from
    xf,      \* the transform accumulated by the fluent builder
    chain,   \* the builder calls made so far, oldest first
    sphere,  \* the Sphere object: transform, cached inverse, material
    canvas,  \* the Canvas object: width, height, pixels
    writes,  \* number of successful write_pixel / fill calls made on canvas
    outcome, \* the most recent call on the sphere, the canvas, or of a
             \* function of the scene: operation, arguments, outcome
    projectile  \* the Projectile of the projectile loop: position, velocity

vars ==
    <<m, last, sets, base, xf, chain, sphere, canvas, writes, outcome,
      projectile>>

---------------------------------------------------------------------------
(* Bounds of the model *)

MaxSets == 1        \* Matrix::set calls made on one matrix
MaxIndex == 3       \* row / col arguments range over 0..MaxIndex
MaxChain == 3       \* builder calls in one fluent chain
MaxHits == 2        \* intersections in one list given to hit
MaxExponent == 3    \* largest shininess powf is expanded for (bases not 0, 1)
MaxDim == 2         \* largest width, height and coordinate of a canvas call
MaxWrites == 2      \* write_pixel and fill calls made on one canvas

---------------------------------------------------------------------------
(* f64 arithmetic on exact rationals *)

Abs(x) == IF x < 0 THEN -x ELSE x

RECURSIVE Gcd(_, _)
Gcd(a, b) == IF b = 0 THEN a ELSE Gcd(b, a % b)

\* n / d in lowest terms, d > 0 (an integer n / 1 is in lowest terms already).
\* A zero denominator gives the values f64 has for it: <<1, 0>> and <<-1, 0>>
\* are the infinities (x / 0.0 for x # 0), <<0, 0>> is NaN (0.0 / 0.0,
\* 0.0 * infinity, infinity - infinity).
Norm(n, d) ==
    IF d = 1 THEN <<n, 1>>
    ELSE IF d = 0 THEN <<IF n > 0 THEN 1 ELSE IF n < 0 THEN -1 ELSE 0, 0>>
    ELSE LET g == Gcd(Abs(n), Abs(d))
             s == IF d < 0 THEN -1 ELSE 1
         IN  <<(s * n) \div g, (s * d) \div g>>

F(n) == <<n, 1>>

NaN == <<0, 0>>

\* a + b: a finite sum is exact; infinity + finite and infinity + infinity
\* of the same sign are that infinity, infinity + -infinity is NaN
FAdd(a, b) ==
    IF a[2] # 0 /\ b[2] # 0
    THEN Norm(a[1] * b[2] + b[1] * a[2], a[2] * b[2])
    ELSE IF a = NaN \/ b = NaN THEN NaN
    ELSE IF a[2] # 0 THEN b
    ELSE IF b[2] # 0 THEN a
    ELSE IF a = b THEN a ELSE NaN

\* a - b: as a + (-b)
FSub(a, b) ==
    IF a[2] # 0 /\ b[2] # 0
    THEN Norm(a[1] * b[2] - b[1] * a[2], a[2] * b[2])
    ELSE IF a = NaN \/ b = NaN THEN NaN
    ELSE IF a[2] # 0 THEN <<-b[1], 0>>
    ELSE IF b[2] # 0 THEN a
    ELSE IF a[1] = -b[1] THEN a ELSE NaN

FMul(a, b) == Norm(a[1] * b[1], a[2] * b[2])

\* a / b: an infinity divided by a negative finite number changes sign
FDiv(a, b) ==
    IF a[2] = 0 /\ b[2] # 0 /\ b[1] < 0 THEN Norm(-a[1], 0)
    ELSE Norm(a[1] * b[2], a[2] * b[1])

\* eq_f64: |a - b| < f64::EPSILON (2^-52).  Two distinct rationals of the
\* model differ by at least 1 / (den_a * den_b), far above 2^-52, so the
\* comparison is true exactly when the difference is zero (and false when
\* the difference is NaN).
eq_f64(a, b) == FSub(a, b) = <<0, 1>>

\* a < b on f64: false when either side is NaN; -infinity < infinity
FLt(a, b) ==
    IF a[2] = 0 /\ b[2] = 0 THEN a # NaN /\ b # NaN /\ a[1] < b[1]
    ELSE a[1] * b[2] < b[1] * a[2]

\* f64::sqrt, on the rationals whose root is rational: the numerator and the
\* denominator are squares.  The inputs of the model are chosen so that every
\* root taken is of this kind (sqrt_exact).
RECURSIVE isqrt_from(_, _)
isqrt_from(n, r) == IF (r + 1) * (r + 1) > n THEN r ELSE isqrt_from(n, r + 1)

isqrt(n) == isqrt_from(n, 0)

sqrt_exact(a) ==
    /\ a[1] >= 0
    /\ isqrt(a[1]) * isqrt(a[1]) = a[1]
    /\ isqrt(a[2]) * isqrt(a[2]) = a[2]

sqrt(a) == <<isqrt(a[1]), isqrt(a[2])>>

---------------------------------------------------------------------------
(* Matrix: construction and access (src/src/matrix/mod.rs) *)

\* variant: the grid of new built with its two dimensions exchanged
new_dims_exchanged(width, height) ==
    [width |-> width, height |-> height,
     elements |-> [i \in 1..width |-> [j \in 1..height |-> F(0)]]]

new(width, height) ==
    [width |-> width, height |-> height,
     elements |-> [i \in 1..height |-> [j \in 1..width |-> F(0)]]]

\* Matrix::from: elements[0] must exist and every row must be as long as it
from_ok(rows) ==
    /\ Len(rows) > 0
    /\ \A i \in 1..Len(rows) : Len(rows[i]) = Len(rows[1])

from(rows) ==
    [width |-> Len(rows[1]), height |-> Len(rows), elements |-> rows]

in_bounds(self, row, col) == (row < self.height) /\ (col < self.width)

get_ok(self, row, col) == in_bounds(self, row, col)
get(self, row, col) == self.elements[row + 1][col + 1]

set_ok(self, row, col) == in_bounds(self, row, col)
\* variant: set indexing the grid by (col, row)
set_col_row(self, row, col, element) ==
    [self EXCEPT !.elements[col + 1][row + 1] = element]

set(self, row, col, element) ==
    [self EXCEPT !.elements[row + 1][col + 1] = element]

\* A matrix whose call aborted part-way: no later set or get succeeds on it
Aborted == [width |-> -1, height |-> -1, elements |-> <<>>]

\* the body of a `for ... { m.set(row, col, value) }` loop nest: cells is the
\* sequence of (row, col) written, in loop order, val the value for each
RECURSIVE set_each(_, _, _)
set_each(mat, cells, val) ==
    IF cells = <<>> THEN mat
    ELSE LET c == Head(cells)
         IN  IF set_ok(mat, c[1], c[2])
             THEN set_each(set(mat, c[1], c[2], val[c]), Tail(cells), val)
             ELSE Aborted

\* the index pairs of `for i in 0..rows { for j in 0..cols {` in loop order
loop2(rows, cols) ==
    [k \in 1..(rows * cols) |-> <<(k - 1) \div cols, (k - 1) % cols>>]

\* variant: the loop of identity starting at 1 instead of 0
identity_from_one(s) ==
    set_each(new(s, s), [k \in 1..(s - 1) |-> <<k, k>>],
             [c \in {<<i, i>> : i \in 1..(s - 1)} |-> F(1)])

identity(s) ==
    set_each(new(s, s), [k \in 1..s |-> <<k - 1, k - 1>>],
             [c \in {<<i, i>> : i \in 0..(s - 1)} |-> F(1)])

transpose(self) ==
    LET ij == loop2(self.height, self.width)
    IN  set_each(new(self.height, self.width),
                 [k \in 1..Len(ij) |-> <<ij[k][2], ij[k][1]>>],
                 [c \in {<<j, i>> : j \in 0..(self.width - 1),
                                    i \in 0..(self.height - 1)}
                    |-> get(self, c[2], c[1])])


---------------------------------------------------------------------------
(* Determinant, minor, cofactor, inverse (src/src/matrix/determinant.rs) *)

None == -1

square_size(self) == IF self.width = self.height THEN self.width ELSE None

\* the indices 0..n-1 without `skip`, zipped with 0..limit: the first
\* `limit` of them, so that kept(..)[new + 1] is the old index copied to new
kept(n, skip, limit) ==
    LET all == SelectSeq([k \in 1..n |-> k - 1], LAMBDA i : i # skip)
    IN  SubSeq(all, 1, IF limit < Len(all) THEN limit ELSE Len(all))

\* self.width - 1 and self.height - 1 are usize subtractions
submatrix_ok(self, row, col) == self.width >= 1 /\ self.height >= 1

submatrix(self, row, col) ==
    LET mat == new(self.width - 1, self.height - 1)
        row_indices == kept(self.height, row, mat.height)
        col_indices == kept(self.width, col, mat.width)
        cells == loop2(Len(row_indices), Len(col_indices))
    IN  set_each(mat, cells,
                 [c \in {cells[k] : k \in 1..Len(cells)} |->
                     get(self, row_indices[c[1] + 1], col_indices[c[2] + 1])])

determinant_2(self) ==
    LET a == get(self, 0, 0)
        b == get(self, 0, 1)
        c == get(self, 1, 0)
        d == get(self, 1, 1)
    IN  FSub(FMul(a, d), FMul(b, c))

RECURSIVE determinant(_)
RECURSIVE determinant_x_loop(_, _, _)

\* determinant() aborts on a non-square matrix; minor and cofactor call it
\* on the submatrix
determinant_ok(self) == square_size(self) # None

minor_ok(self, row, col) ==
    submatrix_ok(self, row, col) /\ determinant_ok(submatrix(self, row, col))

minor(self, row, col) == determinant(submatrix(self, row, col))

cofactor_ok(self, row, col) == minor_ok(self, row, col)

\* variant: the sign rule of cofactor inverted (negate when row + col is even)
cofactor_sign_inverted(self, row, col) ==
    LET should_negate == (row + col) % 2 = 0
    IN  IF should_negate THEN FMul(F(-1), minor(self, row, col))
        ELSE minor(self, row, col)

cofactor(self, row, col) ==
    LET should_negate == (row + col) % 2 = 1
    IN  IF should_negate THEN FMul(F(-1), minor(self, row, col))
        ELSE minor(self, row, col)

\* the loop of determinant_x from column col on, det the running sum
determinant_x_loop(self, col, det) ==
    IF col >= self.width THEN det
    ELSE determinant_x_loop(self, col + 1,
            FAdd(det, FMul(get(self, 0, col), cofactor(self, 0, col))))

determinant_x(self) == determinant_x_loop(self, 0, F(0))

determinant(self) ==
    IF square_size(self) = 2 THEN determinant_2(self)
    ELSE determinant_x(self)

is_invertible_ok(self) == determinant_ok(self)
is_invertible(self) == ~eq_f64(F(0), determinant(self))

inverse_ok(self) == is_invertible_ok(self) /\ is_invertible(self)

\* self is not written in the loop: each iteration's self.determinant() is
\* the one value d
inverse(self) ==
    LET yx == loop2(self.height, self.width)
        d == determinant(self)
    IN  set_each(new(self.width, self.height),
                 [k \in 1..Len(yx) |-> <<yx[k][2], yx[k][1]>>],
                 [c \in {<<x, y>> : x \in 0..(self.width - 1),
                                    y \in 0..(self.height - 1)} |->
                     FDiv(cofactor(self, c[2], c[1]), d)])

---------------------------------------------------------------------------
(* Operators (src/src/matrix/operators.rs) *)

\* PartialEq: same dimensions and every pair of cells eq_f64
eq(self, other) ==
    /\ self.width = other.width /\ self.height = other.height
    /\ \A row \in 0..(self.height - 1) : \A col \in 0..(self.width - 1) :
          eq_f64(get(self, row, col), get(other, row, col))

\* (0..common_dimension).map(|i| a.get(row, i) * b.get(i, col)).fold(0, +)
\* variant: the fold over 0..common_dimension - 1, dropping the last product
RECURSIVE dot_fold_short(_, _, _, _, _, _)
dot_fold_short(a, b, row, col, i, acc) ==
    IF i >= a.width - 1 THEN acc
    ELSE dot_fold_short(a, b, row, col, i + 1,
                        FAdd(acc, FMul(get(a, row, i), get(b, i, col))))

RECURSIVE dot_fold(_, _, _, _, _, _)
dot_fold(a, b, row, col, i, acc) ==
    IF i >= a.width THEN acc
    ELSE dot_fold(a, b, row, col, i + 1,
                  FAdd(acc, FMul(get(a, row, i), get(b, i, col))))

mul_ok(a, b) == a.width = b.height

mul(a, b) ==
    LET result_height == a.height
        result_width == b.width
        cells == loop2(result_height, result_width)
    IN  set_each(new(result_width, result_height), cells,
                 [c \in {cells[k] : k \in 1..Len(cells)} |->
                     dot_fold(a, b, c[1], c[2], 0, F(0))])

\* Tuple { x, y, z, w }
Tuple(x, y, z, w) == [x |-> F(x), y |-> F(y), z |-> F(z), w |-> F(w)]
point(x, y, z) == Tuple(x, y, z, 1)
vector(x, y, z) == Tuple(x, y, z, 0)

from_tuple(t) == from(<<<<t.x, t.y, t.z, t.w>>>>)

mul_tuple_ok(self, rhs) == mul_ok(self, transpose(from_tuple(rhs)))
mul_tuple(self, rhs) == mul(self, transpose(from_tuple(rhs)))

\* map_elements with f(e) = k * e
map_elements(self, k) ==
    LET yx == loop2(self.height, self.width)
    IN  set_each(self, yx,
                 [c \in {yx[i] : i \in 1..Len(yx)} |->
                     FMul(F(k), get(self, c[1], c[2]))])

---------------------------------------------------------------------------
(* Tuple operations that check their operands (src/src/tuple.rs) *)

is_point(t) == eq_f64(t.w, F(1))
is_vector(t) == eq_f64(t.w, F(0))

\* assert_vectors!(lhs, rhs)
assert_vectors(lhs, rhs) == is_vector(lhs) /\ is_vector(rhs)

\* variant: dot checking its left operand only
dot_ok_lhs_only(self, rhs) == is_vector(self)

\* variant: dot pairing y with the other operand's z
dot_y_with_z(self, rhs) ==
    FAdd(FAdd(FAdd(FMul(self.x, rhs.x), FMul(self.y, rhs.z)),
              FMul(self.z, rhs.z)), FMul(self.w, rhs.w))

dot_ok(self, rhs) == assert_vectors(self, rhs)
dot(self, rhs) ==
    FAdd(FAdd(FAdd(FMul(self.x, rhs.x), FMul(self.y, rhs.y)),
              FMul(self.z, rhs.z)), FMul(self.w, rhs.w))

cross_ok(self, rhs) == assert_vectors(self, rhs)
cross(self, rhs) ==
    [x |-> FSub(FMul(self.y, rhs.z), FMul(self.z, rhs.y)),
     y |-> FSub(FMul(self.z, rhs.x), FMul(self.x, rhs.z)),
     z |-> FSub(FMul(self.x, rhs.y), FMul(self.y, rhs.x)),
     w |-> F(0)]

\* Tuple operators: Add, Sub, Neg, Mul<f64>, Div<f64>, PartialEq
tuple_add(self, other) ==
    [x |-> FAdd(self.x, other.x), y |-> FAdd(self.y, other.y),
     z |-> FAdd(self.z, other.z), w |-> FAdd(self.w, other.w)]

tuple_sub(self, other) ==
    [x |-> FSub(self.x, other.x), y |-> FSub(self.y, other.y),
     z |-> FSub(self.z, other.z), w |-> FSub(self.w, other.w)]

tuple_neg(self) == tuple_sub(vector(0, 0, 0), self)

tuple_mul(self, rhs) ==
    [x |-> FMul(self.x, rhs), y |-> FMul(self.y, rhs),
     z |-> FMul(self.z, rhs), w |-> FMul(self.w, rhs)]

tuple_div(self, rhs) == tuple_mul(self, FDiv(F(1), rhs))

tuple_eq(self, other) ==
    /\ eq_f64(self.x, other.x) /\ eq_f64(self.y, other.y)
    /\ eq_f64(self.z, other.z) /\ eq_f64(self.w, other.w)

---------------------------------------------------------------------------
(* Transformations (src/src/matrix/transformation.rs) *)

\* rows of integers as rows of f64
FRows(rows) ==
    [i \in 1..Len(rows) |-> [j \in 1..Len(rows[i]) |-> F(rows[i][j])]]

transformation ==
    from(FRows(<<<<1, 0, 0, 0>>, <<0, 1, 0, 0>>, <<0, 0, 1, 0>>, <<0, 0, 0, 1>>>>))

\* variant: translation with the offsets in the bottom row
translation_bottom_row(x, y, z) ==
    from(FRows(<<<<1, 0, 0, 0>>, <<0, 1, 0, 0>>, <<0, 0, 1, 0>>, <<x, y, z, 1>>>>))

translation(x, y, z) ==
    from(FRows(<<<<1, 0, 0, x>>, <<0, 1, 0, y>>, <<0, 0, 1, z>>, <<0, 0, 0, 1>>>>))

scaling(x, y, z) ==
    from(FRows(<<<<x, 0, 0, 0>>, <<0, y, 0, 0>>, <<0, 0, z, 0>>, <<0, 0, 0, 1>>>>))

\* An angle r is given as a number q of quarter turns, r = q * PI / 2, and
\* cos and sin take their exact values there.
cos(q) == <<1, 0, -1, 0>>[(q % 4) + 1]
sin(q) == <<0, 1, 0, -1>>[(q % 4) + 1]

rotation_x(r) ==
    from(FRows(<<<<1, 0, 0, 0>>, <<0, cos(r), -sin(r), 0>>,
                 <<0, sin(r), cos(r), 0>>, <<0, 0, 0, 1>>>>))

rotation_y(r) ==
    from(FRows(<<<<cos(r), 0, sin(r), 0>>, <<0, 1, 0, 0>>,
                 <<-sin(r), 0, cos(r), 0>>, <<0, 0, 0, 1>>>>))

rotation_z(r) ==
    from(FRows(<<<<cos(r), -sin(r), 0, 0>>, <<sin(r), cos(r), 0, 0>>,
                 <<0, 0, 1, 0>>, <<0, 0, 0, 1>>>>))

shearing(xy, xz, yx, yz, zx, zy) ==
    from(FRows(<<<<1, xy, xz, 0>>, <<yx, 1, yz, 0>>, <<zx, zy, 1, 0>>,
                 <<0, 0, 0, 1>>>>))

\* variant: translate multiplying on the right of the accumulated transform
translate_on_right(self, x, y, z) == mul(self, translation(x, y, z))

translate(self, x, y, z) == mul(translation(x, y, z), self)
scale(self, x, y, z) == mul(scaling(x, y, z), self)
rotate_x(self, r) == mul(rotation_x(r), self)
rotate_y(self, r) == mul(rotation_y(r), self)
rotate_z(self, r) == mul(rotation_z(r), self)
shear(self, xy, xz, yx, yz, zx, zy) == mul(shearing(xy, xz, yx, yz, zx, zy), self)

---------------------------------------------------------------------------
(* Ray, Sphere and hit (src/src/ray.rs, src/src/sphere.rs, src/src/shape.rs) *)

\* &Matrix * &Tuple as a Tuple: the tuple is a single-column matrix, and the
\* column of the product is read back as a tuple
mul_as_tuple_ok(mat, t) == mul_tuple_ok(mat, t) /\ mat.height = 4
mul_as_tuple(mat, t) ==
    LET p == mul_tuple(mat, t)
    IN  [x |-> get(p, 0, 0), y |-> get(p, 1, 0),
         z |-> get(p, 2, 0), w |-> get(p, 3, 0)]

origin == point(0, 0, 0)

ray(p, v) == [origin |-> p, direction |-> v]

\* Ray::position: origin + direction * t
ray_position(self, t) == tuple_add(self.origin, tuple_mul(self.direction, t))

ray_transform_ok(self, transform) ==
    mul_as_tuple_ok(transform, self.origin)
ray_transform(self, transform) ==
    [origin |-> mul_as_tuple(transform, self.origin),
     direction |-> mul_as_tuple(transform, self.direction)]

\* Material::new(): white, ambient 0.1, diffuse 0.9, specular 0.9,
\* shininess 200
WHITE == [red |-> F(1), green |-> F(1), blue |-> F(1)]
BLACK == [red |-> F(0), green |-> F(0), blue |-> F(0)]

material_new ==
    [color |-> WHITE, ambient |-> <<1, 10>>, diffuse |-> <<9, 10>>,
     specular |-> <<9, 10>>, shininess |-> 200]

sphere_new ==
    [transform |-> transformation,
     inverse_transform |-> inverse(transformation),
     material |-> material_new]

\* set_transform assigns self.transform, then self.inverse_transform from
\* self.transform().inverse(); inverse() aborts between the two assignments
\* when the matrix is not invertible
set_transform_ok(self, transform) == inverse_ok(transform)

set_transform(self, transform) ==
    IF inverse_ok(transform)
    THEN [self EXCEPT !.transform = transform,
                      !.inverse_transform = inverse(transform)]
    ELSE [self EXCEPT !.transform = transform]

\* the quadratic of Sphere::intersect, on the ray in object coordinates
\* variant: the ray mapped by the transform itself
object_ray_by_transform(self, r) == ray_transform(r, self.transform)

object_ray(self, r) == ray_transform(r, self.inverse_transform)
sphere_to_ray(self, r) == tuple_sub(object_ray(self, r).origin, origin)
quad_a(self, r) ==
    dot(object_ray(self, r).direction, object_ray(self, r).direction)
quad_b(self, r) ==
    FMul(F(2), dot(object_ray(self, r).direction, sphere_to_ray(self, r)))
quad_c(self, r) ==
    FSub(dot(sphere_to_ray(self, r), sphere_to_ray(self, r)), F(1))
discriminant(self, r) ==
    FSub(FMul(quad_b(self, r), quad_b(self, r)),
         FMul(FMul(F(4), quad_a(self, r)), quad_c(self, r)))

intersect_ok(self, r) ==
    /\ ray_transform_ok(r, self.inverse_transform)
    /\ dot_ok(object_ray(self, r).direction, object_ray(self, r).direction)
    /\ dot_ok(object_ray(self, r).direction, sphere_to_ray(self, r))

\* variant: intersect returning the roots with the square root's sign the
\* same in both
intersect_one_root(self, r) ==
    IF FLt(discriminant(self, r), F(0)) THEN <<>>
    ELSE LET root == sqrt(discriminant(self, r))
             t1 == FDiv(FSub(FSub(F(0), quad_b(self, r)), root),
                        FMul(F(2), quad_a(self, r)))
         IN  <<t1, t1>>

intersect(self, r) ==
    IF FLt(discriminant(self, r), F(0)) THEN <<>>
    ELSE LET root == sqrt(discriminant(self, r))
             t1 == FDiv(FSub(FSub(F(0), quad_b(self, r)), root),
                        FMul(F(2), quad_a(self, r)))
             t2 == FDiv(FAdd(FSub(F(0), quad_b(self, r)), root),
                        FMul(F(2), quad_a(self, r)))
         IN  <<t1, t2>>

\* hit: filter(t > 0), then reduce(|a, b| if a.t < b.t { a } else { b }).
\* An intersection is its t; the result is the position in the list of the
\* element returned, NoHit for Option::None.
NoHit == -1

\* variant: hit filtering with t >= 0
RECURSIVE hit_reduce_from_zero(_, _, _)
hit_reduce_from_zero(intersections, k, acc) ==
    IF k > Len(intersections) THEN acc
    ELSE IF FLt(intersections[k], F(0))
         THEN hit_reduce_from_zero(intersections, k + 1, acc)
         ELSE IF acc = NoHit
              THEN hit_reduce_from_zero(intersections, k + 1, k - 1)
              ELSE IF FLt(intersections[acc + 1], intersections[k])
                   THEN hit_reduce_from_zero(intersections, k + 1, acc)
                   ELSE hit_reduce_from_zero(intersections, k + 1, k - 1)

RECURSIVE hit_reduce(_, _, _)
hit_reduce(intersections, k, acc) ==
    IF k > Len(intersections) THEN acc
    ELSE IF ~FLt(F(0), intersections[k])
         THEN hit_reduce(intersections, k + 1, acc)
         ELSE IF acc = NoHit
              THEN hit_reduce(intersections, k + 1, k - 1)
              ELSE IF FLt(intersections[acc + 1], intersections[k])
                   THEN hit_reduce(intersections, k + 1, acc)
                   ELSE hit_reduce(intersections, k + 1, k - 1)

hit(intersections) == hit_reduce(intersections, 1, NoHit)

---------------------------------------------------------------------------
(* Color, Material::lighting (src/src/color.rs, src/src/material.rs) *)

rgb(r, g, b) == [red |-> r, green |-> g, blue |-> b]

color_tuple(self) == [x |-> self.red, y |-> self.green, z |-> self.blue,
                      w |-> F(0)]
color_from_tuple(v) == [red |-> v.x, green |-> v.y, blue |-> v.z]

hadamard(self, rhs) ==
    [x |-> FMul(self.x, rhs.x), y |-> FMul(self.y, rhs.y),
     z |-> FMul(self.z, rhs.z), w |-> FMul(self.w, rhs.w)]

color_add(self, rhs) ==
    color_from_tuple(tuple_add(color_tuple(self), color_tuple(rhs)))
color_scale(self, rhs) == color_from_tuple(tuple_mul(color_tuple(self), rhs))
color_mul(self, rhs) ==
    color_from_tuple(hadamard(color_tuple(self), color_tuple(rhs)))
color_eq(self, other) == tuple_eq(color_tuple(self), color_tuple(other))

\* f64::clamp(min, max)
fclamp(v, min, max) == IF FLt(v, min) THEN min ELSE IF FLt(max, v) THEN max ELSE v

clamp(self) ==
    rgb(fclamp(self.red, F(0), F(1)), fclamp(self.green, F(0), F(1)),
        fclamp(self.blue, F(0), F(1)))

magnitude(self) ==
    sqrt(FAdd(FAdd(FMul(self.x, self.x), FMul(self.y, self.y)),
              FMul(self.z, self.z)))

normalized(self) == tuple_div(self, magnitude(self))

\* reflect(normal) = v - normal * (2 * (v . normal))
reflect_ok(self, normal) == dot_ok(self, normal)
reflect(self, normal) ==
    tuple_sub(self, tuple_mul(normal, FMul(F(2), dot(self, normal))))

\* the vector normal_at normalizes
world_normal(self, world_point) ==
    LET inverse_transform == self.inverse_transform
        object_point == mul_as_tuple(inverse_transform, world_point)
        object_normal == tuple_sub(object_point, origin)
    IN  [mul_as_tuple(transpose(inverse_transform), object_normal)
            EXCEPT !.w = F(0)]

normal_at_ok(self, world_point) ==
    /\ mul_as_tuple_ok(self.inverse_transform, world_point)
    /\ mul_as_tuple_ok(transpose(self.inverse_transform), world_point)
normal_at(self, world_point) == normalized(world_normal(self, world_point))

\* f64::powf(self, n) for a whole exponent n >= 0, by repeated multiplication
RECURSIVE powf(_, _)
powf(b, n) ==
    IF n = 0 \/ b = F(1) THEN F(1)
    ELSE IF b = F(0) THEN F(0)
    ELSE FMul(b, powf(b, n - 1))

point_light(position, intensity) ==
    [position |-> position, intensity |-> intensity]

lightv(light, position) == normalized(tuple_sub(light.position, position))

light_dot_normal(light, position, normalv) ==
    dot(lightv(light, position), normalv)

reflect_dot_eye(light, position, eyev, normalv) ==
    dot(reflect(tuple_neg(lightv(light, position)), normalv), eyev)

\* the calls of lighting that abort: dot and reflect on a non-vector
lighting_ok(self, light, position, eyev, normalv) ==
    /\ dot_ok(lightv(light, position), normalv)
    /\ ~FLt(light_dot_normal(light, position, normalv), F(0)) =>
          /\ reflect_ok(tuple_neg(lightv(light, position)), normalv)
          /\ dot_ok(reflect(tuple_neg(lightv(light, position)), normalv),
                    eyev)

\* the three contributions of lighting: <<ambient, diffuse, specular>>
lighting_terms(self, light, position, eyev, normalv) ==
    LET effective_color == color_mul(self.color, light.intensity)
        ambient == color_scale(effective_color, self.ambient)
        ldn == light_dot_normal(light, position, normalv)
        rde == reflect_dot_eye(light, position, eyev, normalv)
        diffuse == IF FLt(ldn, F(0)) THEN BLACK
                   ELSE color_scale(color_scale(effective_color, self.diffuse),
                                    ldn)
        specular == IF FLt(ldn, F(0)) THEN BLACK
                    ELSE IF FLt(rde, F(0)) THEN BLACK
                    ELSE color_scale(color_scale(light.intensity,
                                                 self.specular),
                                     powf(rde, self.shininess))
    IN  <<ambient, diffuse, specular>>

\* variant: lighting clamping the sum to [0, 1]
lighting_clamped(self, light, position, eyev, normalv) ==
    LET t == lighting_terms(self, light, position, eyev, normalv)
    IN  clamp(color_add(color_add(t[1], t[2]), t[3]))

lighting(self, light, position, eyev, normalv) ==
    LET t == lighting_terms(self, light, position, eyev, normalv)
    IN  color_add(color_add(t[1], t[2]), t[3])

---------------------------------------------------------------------------
(* Canvas (src/src/canvas.rs) *)

\* variant: a buffer of width + height pixels
canvas_new_sum(width, height) ==
    [width |-> width, height |-> height,
     pixels |-> [i \in 1..(width + height) |-> rgb(F(0), F(0), F(0))]]

canvas_new(width, height) ==
    [width |-> width, height |-> height,
     pixels |-> [i \in 1..(width * height) |-> rgb(F(0), F(0), F(0))]]

\* variant: index stepping by the width
index_by_width(self, x, y) == x * self.width + y

index(self, x, y) == x * self.height + y

\* variant: the next element of the buffer written too
write_pixel_and_next(self, x, y, color) ==
    [self EXCEPT !.pixels =
        [i \in 1..Len(self.pixels) |->
            IF i \in {index(self, x, y) + 1, index(self, x, y) + 2}
            THEN color ELSE self.pixels[i]]]

\* self.pixels[i]: the Vec aborts when i >= len
write_pixel_ok(self, x, y) == index(self, x, y) < Len(self.pixels)
write_pixel(self, x, y, color) ==
    [self EXCEPT !.pixels[index(self, x, y) + 1] = color]

pixel_at_ok(self, x, y) == index(self, x, y) < Len(self.pixels)
pixel_at(self, x, y) == self.pixels[index(self, x, y) + 1]

\* the body of fill: write_pixel on each (x, y) of cells, in loop order
RECURSIVE write_each(_, _, _)
write_each(self, cells, color) ==
    IF cells = <<>> THEN self
    ELSE write_each(write_pixel(self, Head(cells)[1], Head(cells)[2], color),
                    Tail(cells), color)

\* variant: the two loops of fill exchanged
fill_loops_exchanged(self, color) ==
    write_each(self, loop2(self.height, self.width), color)

fill_ok(self) ==
    \A x \in 0..(self.width - 1) : \A y \in 0..(self.height - 1) :
        write_pixel_ok(self, x, y)
fill(self, color) == write_each(self, loop2(self.width, self.height), color)

\* text is a sequence of characters
newline == <<"\n">>

DigitChar(d) == <<"0", "1", "2", "3", "4", "5", "6", "7", "8", "9">>[d + 1]

\* format!("{}", n) of a non-negative integer
RECURSIVE Dec(_)
Dec(n) == IF n < 10 THEN <<DigitChar(n)>>
          ELSE Append(Dec(n \div 10), DigitChar(n % 10))

\* variant: the fraction cut off
ceil_cut(a) == a[1] \div a[2]

\* f64::ceil as i32
ceil(a) == -((-a[1]) \div a[2])

\* variant: no space after the last channel
color_render_no_last_space(self) ==
    LET clamped == clamp(self)
        channel(value) == Dec(ceil(FMul(value, F(255))))
    IN  channel(clamped.red) \o <<" ">> \o channel(clamped.green) \o <<" ">>
            \o channel(clamped.blue)

\* Color::render_as_ppm: "r g b " of the clamped channels times 255, rounded up
color_render_as_ppm(self) ==
    LET clamped == clamp(self)
        channel(value) == Dec(ceil(FMul(value, F(255))))
    IN  channel(clamped.red) \o <<" ">> \o channel(clamped.green) \o <<" ">>
            \o channel(clamped.blue) \o <<" ">>

max_line_length == 70

\* variant: the line length kept across a break
RECURSIVE render_row_no_reset(_, _, _, _, _)
render_row_no_reset(self, y, x, line_length, s) ==
    IF x >= self.width THEN s \o newline
    ELSE LET color_str == color_render_as_ppm(pixel_at(self, x, y))
             wrap == line_length + Len(color_str) > max_line_length
         IN  render_row_no_reset(self, y, x + 1,
                                 line_length + Len(color_str),
                                 (IF wrap THEN s \o newline ELSE s)
                                     \o color_str)

\* the inner loop of render_as_ppm from column x on, then the newline
RECURSIVE render_row(_, _, _, _, _)
render_row(self, y, x, line_length, s) ==
    IF x >= self.width THEN s \o newline
    ELSE LET color_str == color_render_as_ppm(pixel_at(self, x, y))
             wrap == line_length + Len(color_str) > max_line_length
         IN  render_row(self, y, x + 1,
                        (IF wrap THEN 0 ELSE line_length) + Len(color_str),
                        (IF wrap THEN s \o newline ELSE s) \o color_str)

\* variant: the newline after a scanline written between scanlines only
RECURSIVE render_rows_newline_between(_, _, _)
render_rows_newline_between(self, y, s) ==
    IF y >= self.height THEN s
    ELSE LET row == render_row(self, y, 0, 0, s)
         IN  render_rows_newline_between(self, y + 1,
                IF y = self.height - 1 THEN SubSeq(row, 1, Len(row) - 1)
                ELSE row)

\* the outer loop of render_as_ppm from row y on
RECURSIVE render_rows(_, _, _)
render_rows(self, y, s) ==
    IF y >= self.height THEN s
    ELSE render_rows(self, y + 1, render_row(self, y, 0, 0, s))

render_as_ppm(self) ==
    render_rows(self, 0,
                <<"P", "3">> \o newline
                    \o Dec(self.width) \o <<" ">> \o Dec(self.height) \o newline
                    \o <<"2", "5", "5">> \o newline)

---------------------------------------------------------------------------
(* Projectile (src/src/projectile.rs) *)

RED == rgb(F(1), F(0), F(0))

\* Projectile::update: one step of dtime under gravity and wind
update(self, env, dtime) ==
    LET accel == tuple_mul(tuple_add(env.gravity, env.wind), dtime)
    IN  [position |-> tuple_add(self.position, tuple_mul(self.velocity, dtime)),
         velocity |-> tuple_add(self.velocity, accel)]

\* f64::floor of a finite number
floor(a) == a[1] \div a[2]

\* f64::round as i64: to the nearest integer, a half away from zero
round(a) ==
    IF a[1] >= 0 THEN floor(FAdd(a, <<1, 2>>))
    ELSE -floor(FAdd(FSub(F(0), a), <<1, 2>>))

coords(self) == <<round(self.position.x), round(self.position.y)>>

is_out_of_bounds(self, cv) ==
    LET x == coords(self)[1]
        y == coords(self)[2]
    IN  x < 0 \/ y < 0 \/ Abs(x) > cv.width \/ Abs(y) > cv.height

\* the pixel draw_on writes: column x, row height - y
draw_on_pixel(self, cv) == <<coords(self)[1], cv.height - coords(self)[2]>>

\* the loop calls draw_on when is_out_of_bounds is false: 0 <= x and
\* 0 <= y <= height, so the casts to usize and height - y are exact
draw_on_ok(self, cv) ==
    /\ write_pixel_ok(cv, draw_on_pixel(self, cv)[1], draw_on_pixel(self, cv)[2])
draw_on(self, cv) ==
    write_pixel(cv, draw_on_pixel(self, cv)[1], draw_on_pixel(self, cv)[2], RED)

---------------------------------------------------------------------------
(* Inputs *)

\* the integer matrices of the repository's tests, and small shapes
two == <<<<1, 5>>, <<-3, 2>>>>
three == <<<<3, 5, 0>>, <<2, -1, -7>>, <<6, -1, 5>>>>
three_b == <<<<1, 2, 6>>, <<-5, 8, -4>>, <<2, 6, 4>>>>
four == <<<<1, 2, 3, 4>>, <<2, 4, 4, 2>>, <<8, 6, 4, 1>>, <<0, 0, 0, 1>>>>
four_inv == <<<<-5, 2, 6, -8>>, <<1, -5, 1, 8>>, <<7, 7, -6, -7>>, <<1, -3, 7, 4>>>>
four_sing == <<<<-4, 2, -2, -3>>, <<9, 6, 2, 6>>, <<0, -5, 1, -5>>, <<0, 0, 0, 0>>>>
one == <<<<7>>>>
wide == <<<<1, 2, 3>>, <<4, 5, 6>>>>
tall == <<<<2>>, <<-1>>, <<3>>, <<1>>>>
ragged == <<<<1, 2>>, <<1>>>>
ragged_b == <<<<1>>, <<1, 2>>, <<3>>>>

\* row lists a caller can hand to Matrix::from
WellFormedRows ==
    {FRows(r) : r \in {two, three, three_b, four_inv, four_sing,
                       one, wide, tall}}

InputRows == WellFormedRows \cup {FRows(ragged), FRows(ragged_b), <<>>}

\* the other operand of a multiplication
Operands ==
    {from(FRows(r)) : r \in {two, three, four_inv, wide, tall}}
        \cup {identity(s) : s \in 1..4}

InputTuples ==
    {point(1, 2, 3), vector(1, 2, 3), vector(2, 3, 4), vector(-1, 0, 2),
     Tuple(1, 0, 1, 2)}

MapFactors == {-1, 2}

Indices == 0..MaxIndex
SetVals == {0, 1}

NoMatrix == new(0, 0)

NoCall ==
    [op |-> "none", a1 |-> 0, a2 |-> 0, val |-> F(0), other |-> NoMatrix,
     rows |-> <<>>, t1 |-> vector(0, 0, 0), t2 |-> vector(0, 0, 0),
     panicked |-> FALSE, num |-> F(0), flag |-> FALSE, out |-> NoMatrix,
     tout |-> vector(0, 0, 0), before |-> NoMatrix]

\* no projectile: the runs that have none
NoProjectile ==
    [position |-> point(0, 0, 0), velocity |-> vector(0, 0, 0)]

\* the call record of the sphere, the canvas and the scene functions
Idle == [op |-> "none", args |-> <<>>, panicked |-> FALSE, result |-> <<>>]

\* A query or an aborted call leaves m as it is, so the calls that can follow
\* it are the calls that can follow the state it was made in: a run is traced
\* up to its first query or abort.
CanCall == last.op \in {"none", "set"} /\ ~last.panicked

---------------------------------------------------------------------------
(* The matrix under test: construction, Matrix::set, and the queries *)

Init ==
    /\ m \in {from(r) : r \in WellFormedRows}
    /\ last = NoCall
    /\ sets = 0
    /\ base = transformation
    /\ xf = transformation
    /\ chain = <<>>
    /\ sphere = sphere_new
    /\ canvas = canvas_new(0, 0)
    /\ writes = 0
    /\ outcome = Idle
    /\ projectile = NoProjectile

Query(call) ==
    /\ CanCall
    /\ last' = call
    /\ UNCHANGED <<m, sets, base, xf, chain, sphere, canvas, writes, outcome,
                   projectile>>

\* new, from, identity, dot and cross have no Matrix receiver and do not read
\* m: they are traced from the states where m is as constructed
StaticQuery(call) == sets = 0 /\ Query(call)

Set(row, col, element) ==
    /\ CanCall
    /\ sets < MaxSets
    /\ IF set_ok(m, row, col)
       THEN /\ m' = set(m, row, col, F(element))
            /\ sets' = sets + 1
            /\ last' = [NoCall EXCEPT !.op = "set", !.a1 = row, !.a2 = col,
                                      !.val = F(element), !.before = m]
       ELSE /\ UNCHANGED <<m, sets>>
            /\ last' = [NoCall EXCEPT !.op = "set", !.a1 = row, !.a2 = col,
                                      !.val = F(element), !.before = m,
                                      !.panicked = TRUE]
    /\ UNCHANGED <<base, xf, chain, sphere, canvas, writes, outcome,
                   projectile>>

Get(row, col) ==
    Query(IF get_ok(m, row, col)
          THEN [NoCall EXCEPT !.op = "get", !.a1 = row, !.a2 = col,
                              !.num = get(m, row, col)]
          ELSE [NoCall EXCEPT !.op = "get", !.a1 = row, !.a2 = col,
                              !.panicked = TRUE])

New(width, height) ==
    StaticQuery([NoCall EXCEPT !.op = "new", !.a1 = width, !.a2 = height,
                         !.out = new(width, height)])

From(rows) ==
    StaticQuery(IF from_ok(rows)
          THEN [NoCall EXCEPT !.op = "from", !.rows = rows, !.out = from(rows)]
          ELSE [NoCall EXCEPT !.op = "from", !.rows = rows, !.panicked = TRUE])

Identity(s) ==
    StaticQuery([NoCall EXCEPT !.op = "identity", !.a1 = s, !.out = identity(s)])

Transpose ==
    Query([NoCall EXCEPT !.op = "transpose", !.out = transpose(m)])

MapElements(k) ==
    Query([NoCall EXCEPT !.op = "map_elements", !.a1 = k,
                         !.out = map_elements(m, k)])

Determinant ==
    Query(IF determinant_ok(m)
          THEN [NoCall EXCEPT !.op = "determinant", !.num = determinant(m)]
          ELSE [NoCall EXCEPT !.op = "determinant", !.panicked = TRUE])

IsInvertible ==
    Query(IF is_invertible_ok(m)
          THEN [NoCall EXCEPT !.op = "is_invertible", !.flag = is_invertible(m)]
          ELSE [NoCall EXCEPT !.op = "is_invertible", !.panicked = TRUE])

Inverse ==
    Query(IF inverse_ok(m)
          THEN [NoCall EXCEPT !.op = "inverse", !.out = inverse(m)]
          ELSE [NoCall EXCEPT !.op = "inverse", !.panicked = TRUE])

Submatrix(row, col) ==
    Query(IF submatrix_ok(m, row, col)
          THEN [NoCall EXCEPT !.op = "submatrix", !.a1 = row, !.a2 = col,
                              !.out = submatrix(m, row, col)]
          ELSE [NoCall EXCEPT !.op = "submatrix", !.a1 = row, !.a2 = col,
                              !.panicked = TRUE])

Minor(row, col) ==
    Query(IF minor_ok(m, row, col)
          THEN [NoCall EXCEPT !.op = "minor", !.a1 = row, !.a2 = col,
                              !.num = minor(m, row, col)]
          ELSE [NoCall EXCEPT !.op = "minor", !.a1 = row, !.a2 = col,
                              !.panicked = TRUE])

Cofactor(row, col) ==
    Query(IF cofactor_ok(m, row, col)
          THEN [NoCall EXCEPT !.op = "cofactor", !.a1 = row, !.a2 = col,
                              !.num = cofactor(m, row, col)]
          ELSE [NoCall EXCEPT !.op = "cofactor", !.a1 = row, !.a2 = col,
                              !.panicked = TRUE])

\* m * rhs
Mul(rhs) ==
    Query(IF mul_ok(m, rhs)
          THEN [NoCall EXCEPT !.op = "mul", !.other = rhs, !.out = mul(m, rhs)]
          ELSE [NoCall EXCEPT !.op = "mul", !.other = rhs, !.panicked = TRUE])

\* lhs * m
MulLeft(lhs) ==
    Query(IF mul_ok(lhs, m)
          THEN [NoCall EXCEPT !.op = "mul_left", !.other = lhs,
                              !.out = mul(lhs, m)]
          ELSE [NoCall EXCEPT !.op = "mul_left", !.other = lhs,
                              !.panicked = TRUE])

\* m * t for a Tuple t
MulTuple(t) ==
    Query(IF mul_tuple_ok(m, t)
          THEN [NoCall EXCEPT !.op = "mul_tuple", !.t1 = t,
                              !.out = mul_tuple(m, t)]
          ELSE [NoCall EXCEPT !.op = "mul_tuple", !.t1 = t, !.panicked = TRUE])

Dot(a, b) ==
    StaticQuery(IF dot_ok(a, b)
          THEN [NoCall EXCEPT !.op = "dot", !.t1 = a, !.t2 = b,
                              !.num = dot(a, b)]
          ELSE [NoCall EXCEPT !.op = "dot", !.t1 = a, !.t2 = b,
                              !.panicked = TRUE])

Cross(a, b) ==
    StaticQuery(IF cross_ok(a, b)
          THEN [NoCall EXCEPT !.op = "cross", !.t1 = a, !.t2 = b,
                              !.tout = cross(a, b)]
          ELSE [NoCall EXCEPT !.op = "cross", !.t1 = a, !.t2 = b,
                              !.panicked = TRUE])

Next ==
    \/ \E row \in Indices, col \in Indices, e \in SetVals : Set(row, col, e)
    \/ \E row \in Indices, col \in Indices : Get(row, col)
    \/ \E w \in 0..2, h \in 0..2 : New(w, h)
    \/ \E rows \in InputRows : From(rows)
    \/ \E s \in Indices : Identity(s)
    \/ Transpose
    \/ \E k \in MapFactors : MapElements(k)
    \/ Determinant
    \/ IsInvertible
    \/ Inverse
    \/ \E row \in Indices, col \in Indices : Submatrix(row, col)
    \/ \E row \in Indices, col \in Indices : Minor(row, col)
    \/ \E row \in Indices, col \in Indices : Cofactor(row, col)
    \/ \E rhs \in Operands : Mul(rhs)
    \/ \E lhs \in Operands : MulLeft(lhs)
    \/ \E t \in InputTuples : MulTuple(t)
    \/ \E a \in InputTuples, b \in InputTuples : Dot(a, b)
    \/ \E a \in InputTuples, b \in InputTuples : Cross(a, b)

Spec == Init /\ [][Next]_vars

---------------------------------------------------------------------------
(* The fluent transformation builder: a chain of builder calls on base *)

TranslateArgs == {<<10, 5, 7>>, <<5, -3, 2>>}
ScaleArgs == {<<5, 5, 5>>, <<2, 3, 4>>}
Turns == {1}
ShearArgs == {<<1, 0, 0, 0, 1, 0>>}

Bases == {transformation, from(FRows(four))}

InputPoints == {point(1, 0, 1), point(-3, 4, 5)}
InputVectors == {vector(-3, 4, 5), vector(1, 0, 0)}

InitBuilder ==
    /\ m = from(FRows(two))
    /\ last = NoCall
    /\ sets = 0
    /\ base \in Bases
    /\ xf = base
    /\ chain = <<>>
    /\ sphere = sphere_new
    /\ canvas = canvas_new(0, 0)
    /\ writes = 0
    /\ outcome = Idle
    /\ projectile = NoProjectile

Build(op, args, result) ==
    /\ Len(chain) < MaxChain
    /\ xf' = result
    /\ chain' = Append(chain, [op |-> op, args |-> args])
    /\ UNCHANGED <<m, last, sets, base, sphere, canvas, writes, outcome,
                   projectile>>

Translate(a) == Build("translate", a, translate(xf, a[1], a[2], a[3]))
Scale(a) == Build("scale", a, scale(xf, a[1], a[2], a[3]))
RotateX(r) == Build("rotate_x", <<r>>, rotate_x(xf, r))
RotateY(r) == Build("rotate_y", <<r>>, rotate_y(xf, r))
RotateZ(r) == Build("rotate_z", <<r>>, rotate_z(xf, r))
Shear(a) ==
    Build("shear", a, shear(xf, a[1], a[2], a[3], a[4], a[5], a[6]))

NextBuilder ==
    \/ \E a \in TranslateArgs : Translate(a)
    \/ \E a \in ScaleArgs : Scale(a)
    \/ \E r \in Turns : RotateX(r)
    \/ \E r \in Turns : RotateY(r)
    \/ \E r \in Turns : RotateZ(r)
    \/ \E a \in ShearArgs : Shear(a)

SpecBuilder == InitBuilder /\ [][NextBuilder]_vars

---------------------------------------------------------------------------
(* The scene state machine: one Sphere, and the functions hit and lighting *)

InputRays ==
    {ray(point(0, 0, -5), vector(0, 0, 1)), ray(point(0, 1, -5), vector(0, 0, 1)),
     ray(point(0, 2, -5), vector(0, 0, 1)), ray(point(0, 0, 0), vector(0, 0, 1)),
     ray(point(0, 0, 5), vector(0, 0, 1)), ray(point(0, 0, -5), point(0, 0, 1)),
     ray(point(0, 0, -5), vector(0, 0, 0))}

\* a quarter turn about z followed by a scaling of y alone: the inverse of
\* this transform is not symmetric, so its transpose is another matrix
TurnedAndStretched == mul(scaling(1, 2, 1), rotation_z(1))

SphereTransforms ==
    {translation(5, 0, 0), scaling(2, 2, 2), TurnedAndStretched,
     from(FRows(four_sing)), from(FRows(wide))}

HitTs == {F(-1), F(0), F(1), F(2)}
HitLists == UNION {[1..n -> HitTs] : n \in 0..MaxHits}

InputMaterials ==
    {material_new,
     [color |-> rgb(F(1), <<1, 2>>, F(0)), ambient |-> <<1, 5>>,
      diffuse |-> <<1, 2>>, specular |-> F(1), shininess |-> 2],
     [color |-> rgb(F(1), F(1), F(1)), ambient |-> <<1, 10>>,
      diffuse |-> <<9, 10>>, specular |-> <<9, 10>>, shininess |-> 0]}

InputLights ==
    {point_light(p, i) :
        p \in {point(0, 0, -10), point(0, 0, 10), point(0, 10, 0),
               point(0, 3, -4)},
        i \in {WHITE, rgb(<<1, 2>>, F(1), F(1))}}

InputEyes ==
    {vector(0, 0, -1), vector(0, -1, 0), vector(0, 0, 1), point(0, 0, -1)}

InputNormals == {vector(0, 0, -1), vector(0, 1, 0)}

\* the inputs of lighting the model computes exactly: the light is not at the
\* position, the length of the light vector is rational, and a power of a
\* base other than 0 and 1 has an exponent of at most MaxExponent
lighting_exact(self, light, position, eyev, normalv) ==
    LET d == tuple_sub(light.position, position)
        sq == FAdd(FAdd(FMul(d.x, d.x), FMul(d.y, d.y)), FMul(d.z, d.z))
    IN  /\ sq # F(0) /\ sqrt_exact(sq)
        /\ (/\ lighting_ok(self, light, position, eyev, normalv)
            /\ ~FLt(light_dot_normal(light, position, normalv), F(0))
            /\ ~FLt(reflect_dot_eye(light, position, eyev, normalv), F(0))) =>
              \/ reflect_dot_eye(light, position, eyev, normalv)
                    \in {F(0), F(1)}
              \/ self.shininess <= MaxExponent

InitScene ==
    /\ m = from(FRows(two))
    /\ last = NoCall
    /\ sets = 0
    /\ base = transformation
    /\ xf = transformation
    /\ chain = <<>>
    /\ sphere = sphere_new
    /\ canvas = canvas_new(0, 0)
    /\ writes = 0
    /\ outcome = Idle
    /\ projectile = NoProjectile

\* a query or an aborted call is the last call of a run
SceneCanCall == outcome.op \in {"none", "set_transform"} /\ ~outcome.panicked

SetTransform(transform) ==
    /\ SceneCanCall
    /\ sphere' = set_transform(sphere, transform)
    /\ outcome' = [op |-> "set_transform", args |-> <<transform>>,
                   panicked |-> ~set_transform_ok(sphere, transform),
                   result |-> <<>>]
    /\ UNCHANGED <<m, last, sets, base, xf, chain, canvas, writes,
                   projectile>>

SceneQuery(c) ==
    /\ SceneCanCall
    /\ outcome' = c
    /\ UNCHANGED <<m, last, sets, base, xf, chain, sphere, canvas, writes,
                   projectile>>

\* the roots taken by the model are rational
Intersect(r) ==
    /\ SceneCanCall
    /\ intersect_ok(sphere, r) =>
          \/ FLt(discriminant(sphere, r), F(0))
          \/ sqrt_exact(discriminant(sphere, r))
    /\ SceneQuery([op |-> "intersect", args |-> <<r>>,
                   panicked |-> ~intersect_ok(sphere, r),
                   result |-> IF intersect_ok(sphere, r)
                              THEN intersect(sphere, r) ELSE <<>>])

\* a point on the sphere transformed by TurnedAndStretched: the inverse
\* transform maps it to (3/7, -2/7, 6/7), of length 1
SlantedPoint == [x |-> <<2, 7>>, y |-> <<6, 7>>, z |-> <<6, 7>>, w |-> F(1)]

\* the points normal_at is asked about: on the default, the translated, the
\* scaled and the turned sphere, and the centres of the spheres
InputSurfacePoints ==
    {point(1, 0, 0), point(0, 1, 0), point(0, 0, 1), point(0, 0, -1),
     point(6, 0, 0), point(5, 1, 0), point(2, 0, 0), point(0, 0, 0),
     point(5, 0, 0), vector(0, 2, 0), SlantedPoint}

\* the roots taken by the model are rational
NormalAt(world_point) ==
    /\ SceneCanCall
    /\ normal_at_ok(sphere, world_point) =>
          LET v == world_normal(sphere, world_point)
          IN  sqrt_exact(FAdd(FAdd(FMul(v.x, v.x), FMul(v.y, v.y)),
                              FMul(v.z, v.z)))
    /\ SceneQuery([op |-> "normal_at", args |-> <<world_point>>,
                   panicked |-> ~normal_at_ok(sphere, world_point),
                   result |-> IF normal_at_ok(sphere, world_point)
                              THEN normal_at(sphere, world_point) ELSE <<>>])

\* hit and lighting do not read the sphere
Hit(intersections) ==
    /\ outcome.op = "none"
    /\ SceneQuery([op |-> "hit", args |-> <<intersections>>,
                   panicked |-> FALSE, result |-> hit(intersections)])

Lighting(self, light, position, eyev, normalv) ==
    /\ outcome.op = "none"
    /\ lighting_exact(self, light, position, eyev, normalv)
    /\ SceneQuery([op |-> "lighting",
                   args |-> <<self, light, position, eyev, normalv>>,
                   panicked |->
                       ~lighting_ok(self, light, position, eyev, normalv),
                   result |->
                       IF lighting_ok(self, light, position, eyev, normalv)
                       THEN lighting(self, light, position, eyev, normalv)
                       ELSE <<>>])

NextScene ==
    \/ \E t \in SphereTransforms : SetTransform(t)
    \/ \E r \in InputRays : Intersect(r)
    \/ \E p \in InputSurfacePoints : NormalAt(p)
    \/ \E is \in HitLists : Hit(is)
    \/ \E self \in InputMaterials, light \in InputLights, eyev \in InputEyes,
          normalv \in InputNormals :
            Lighting(self, light, origin, eyev, normalv)

SpecScene == InitScene /\ [][NextScene]_vars

---------------------------------------------------------------------------
(* The canvas state machine: one Canvas and the calls of its methods *)

InputColors == {rgb(F(1), F(0), F(0)), rgb(<<3, 2>>, <<1, 2>>, <<-1, 2>>)}

Coords == 0..MaxDim

\* the colour and the canvas sizes of the rendering tests
FillColors == InputColors \cup {rgb(F(1), <<4, 5>>, <<3, 5>>)}
TestSizes == {<<9, 2>>, <<5, 3>>}

InitCanvas ==
    /\ m = from(FRows(two))
    /\ last = NoCall
    /\ sets = 0
    /\ base = transformation
    /\ xf = transformation
    /\ chain = <<>>
    /\ sphere = sphere_new
    /\ canvas \in {canvas_new(wh[1], wh[2]) :
                      wh \in (Coords \X Coords) \cup TestSizes}
    /\ writes = 0
    /\ outcome = Idle
    /\ projectile = NoProjectile

\* a query or an aborted call is the last call of a run
CanvasCanCall ==
    outcome.op \in {"none", "write_pixel", "fill"} /\ ~outcome.panicked

CanvasCall(c) ==
    /\ CanvasCanCall
    /\ outcome' = c
    /\ UNCHANGED <<m, last, sets, base, xf, chain, sphere,
                   projectile>>

WritePixel(x, y, color) ==
    /\ writes < MaxWrites
    /\ canvas' = IF write_pixel_ok(canvas, x, y)
                 THEN write_pixel(canvas, x, y, color) ELSE canvas
    /\ writes' = writes + 1
    /\ CanvasCall([op |-> "write_pixel", args |-> <<x, y, color>>,
                   panicked |-> ~write_pixel_ok(canvas, x, y),
                   result |-> <<>>, before |-> canvas])

Fill(color) ==
    /\ writes < MaxWrites
    /\ canvas' = IF fill_ok(canvas) THEN fill(canvas, color) ELSE canvas
    /\ writes' = writes + 1
    /\ CanvasCall([op |-> "fill", args |-> <<color>>,
                   panicked |-> ~fill_ok(canvas),
                   result |-> <<>>, before |-> canvas])

PixelAt(x, y) ==
    /\ UNCHANGED <<canvas, writes>>
    /\ CanvasCall([op |-> "pixel_at", args |-> <<x, y>>,
                   panicked |-> ~pixel_at_ok(canvas, x, y),
                   result |-> IF pixel_at_ok(canvas, x, y)
                              THEN <<pixel_at(canvas, x, y)>> ELSE <<>>,
                   before |-> canvas])

RenderAsPpm ==
    /\ UNCHANGED <<canvas, writes>>
    /\ CanvasCall([op |-> "render_as_ppm", args |-> <<>>, panicked |-> FALSE,
                   result |-> render_as_ppm(canvas), before |-> canvas])

NextCanvas ==
    \/ \E x \in Coords, y \in Coords, color \in InputColors :
          WritePixel(x, y, color)
    \/ \E color \in FillColors : Fill(color)
    \/ \E x \in Coords, y \in Coords : PixelAt(x, y)
    \/ RenderAsPpm

SpecCanvas == InitCanvas /\ [][NextCanvas]_vars

---------------------------------------------------------------------------
(* The render loop: one write_pixel per pixel, the pixels taken in any order *)

\* the calls made so far: triples <<x, y, color>>
Painting(done) ==
    [op |-> "paint", args |-> <<>>, panicked |-> FALSE, result |-> <<>>,
     painted |-> done]

InitPaint ==
    /\ m = from(FRows(two))
    /\ last = NoCall
    /\ sets = 0
    /\ base = transformation
    /\ xf = transformation
    /\ chain = <<>>
    /\ sphere = sphere_new
    /\ canvas \in {canvas_new(width, height) :
                      width \in Coords, height \in Coords}
    /\ writes = 0
    /\ outcome = Painting({})
    /\ projectile = NoProjectile

\* the body of the loops for pixel (x, y), when the ray hits: hit_color is
\* written to the pixel; a pixel whose ray misses is never written
Paint(x, y, hit_color) ==
    /\ ~outcome.panicked
    /\ x < canvas.width /\ y < canvas.height
    /\ \A p \in outcome.painted : <<p[1], p[2]>> # <<x, y>>
    /\ canvas' = IF write_pixel_ok(canvas, x, y)
                 THEN write_pixel(canvas, x, y, hit_color) ELSE canvas
    /\ outcome' = [Painting(outcome.painted \cup {<<x, y, hit_color>>})
                      EXCEPT !.panicked = ~write_pixel_ok(canvas, x, y)]
    /\ UNCHANGED <<m, last, sets, base, xf, chain, sphere, writes,
                   projectile>>

NextPaint ==
    \E x \in Coords, y \in Coords, hit_color \in FillColors :
        Paint(x, y, hit_color)

SpecPaint == InitPaint /\ [][NextPaint]_vars

---------------------------------------------------------------------------
(* The projectile loop (src/src/challenges/ch2_projectile.rs) *)

\* the environment and the step of the run
Env == [gravity |-> [x |-> F(0), y |-> <<-1, 10>>, z |-> F(0), w |-> F(0)],
        wind |-> [x |-> <<-1, 100>>, y |-> F(0), z |-> F(0), w |-> F(0)]]
Dtime == <<1, 10>>

\* the projectiles a run starts with, and the canvases
StartProjectiles ==
    {[position |-> point(0, y, 0), velocity |-> vector(vx, vy, 0)] :
        y \in 0..1, vx \in 1..2, vy \in 0..2}
LoopSizes == {<<width, height>> : width \in 1..(MaxDim + 2),
                                  height \in 1..(MaxDim + 2)}

InitLoop ==
    /\ m = from(FRows(two))
    /\ last = NoCall
    /\ sets = 0
    /\ base = transformation
    /\ xf = transformation
    /\ chain = <<>>
    /\ sphere = sphere_new
    /\ canvas \in {canvas_new(wh[1], wh[2]) : wh \in LoopSizes}
    /\ writes = 0
    /\ outcome = Idle
    /\ projectile \in StartProjectiles

LoopRuns == outcome.op \in {"none", "draw_on"} /\ ~outcome.panicked

\* if p.is_out_of_bounds(&c) { break; }
Break ==
    /\ LoopRuns
    /\ is_out_of_bounds(projectile, canvas)
    /\ outcome' = [op |-> "break", args |-> <<>>, panicked |-> FALSE,
                   result |-> <<>>, before |-> canvas]
    /\ UNCHANGED <<m, last, sets, base, xf, chain, sphere, canvas, writes,
                   projectile>>

\* p.draw_on(&mut c); p = p.update(&e, dtime);
DrawAndUpdate ==
    /\ LoopRuns
    /\ ~is_out_of_bounds(projectile, canvas)
    /\ outcome' = [op |-> "draw_on", args |-> <<projectile>>,
                   panicked |-> ~draw_on_ok(projectile, canvas),
                   result |-> <<>>, before |-> canvas]
    /\ IF draw_on_ok(projectile, canvas)
       THEN /\ canvas' = draw_on(projectile, canvas)
            /\ projectile' = update(projectile, Env, Dtime)
       ELSE UNCHANGED <<canvas, projectile>>
    /\ UNCHANGED <<m, last, sets, base, xf, chain, sphere, writes>>

NextLoop == Break \/ DrawAndUpdate

SpecLoop == InitLoop /\ [][NextLoop]_vars

---------------------------------------------------------------------------
(* Reference definitions the properties compare the program against *)

\* cell (row, col) of a matrix, 0-based, read directly from the grid
Cell(mat, row, col) == mat.elements[row + 1][col + 1]

\* well-formed grid: height rows of width elements each
WellFormed(mat) ==
    /\ mat.width >= 0 /\ mat.height >= 0
    /\ Len(mat.elements) = mat.height
    /\ \A i \in 1..Len(mat.elements) : Len(mat.elements[i]) = mat.width

IsSquare(mat) == mat.width = mat.height

\* The mathematical determinant, written out without the program's
\* recursion: the entry itself for 1x1, a*d - b*c for 2x2, the rule of Sarrus
\* for 3x3 (on rows r and columns c of mat, 1-based), and for 4x4 the
\* expansion along the LAST row into 3x3 determinants.
E(mat, i, j) == mat.elements[i][j]

Add3(a, b, c) == FAdd(FAdd(a, b), c)
Mul3(a, b, c) == FMul(FMul(a, b), c)

Det2(mat, r, c) ==
    FSub(FMul(E(mat, r[1], c[1]), E(mat, r[2], c[2])),
         FMul(E(mat, r[1], c[2]), E(mat, r[2], c[1])))

Det3(mat, r, c) ==
    FSub(Add3(Mul3(E(mat, r[1], c[1]), E(mat, r[2], c[2]), E(mat, r[3], c[3])),
              Mul3(E(mat, r[1], c[2]), E(mat, r[2], c[3]), E(mat, r[3], c[1])),
              Mul3(E(mat, r[1], c[3]), E(mat, r[2], c[1]), E(mat, r[3], c[2]))),
         Add3(Mul3(E(mat, r[1], c[3]), E(mat, r[2], c[2]), E(mat, r[3], c[1])),
              Mul3(E(mat, r[1], c[1]), E(mat, r[2], c[3]), E(mat, r[3], c[2])),
              Mul3(E(mat, r[1], c[2]), E(mat, r[2], c[1]), E(mat, r[3], c[3]))))

Det4(mat) ==
    LET r == <<1, 2, 3>>
    IN  FAdd(FSub(FMul(E(mat, 4, 2), Det3(mat, r, <<1, 3, 4>>)),
                  FMul(E(mat, 4, 1), Det3(mat, r, <<2, 3, 4>>))),
             FSub(FMul(E(mat, 4, 4), Det3(mat, r, <<1, 2, 3>>)),
                  FMul(E(mat, 4, 3), Det3(mat, r, <<1, 2, 4>>))))

\* defined for square matrices of size 0..4
RefDet(mat) ==
    CASE mat.height = 0 -> F(1)
      [] mat.height = 1 -> E(mat, 1, 1)
      [] mat.height = 2 -> Det2(mat, <<1, 2>>, <<1, 2>>)
      [] mat.height = 3 -> Det3(mat, <<1, 2, 3>>, <<1, 2, 3>>)
      [] mat.height = 4 -> Det4(mat)

---------------------------------------------------------------------------
(* Properties *)

\* C1: for every square matrix of size n >= 2, determinant() returns the
\* mathematical determinant (a*d - b*c for 2x2, RefDet in general)
C1_DeterminantCorrect ==
    (last.op = "determinant" /\ IsSquare(m) /\ m.width >= 2) =>
        /\ ~last.panicked
        /\ last.num = RefDet(m)
        /\ m.width = 2 =>
             last.num = FSub(FMul(Cell(m, 0, 0), Cell(m, 1, 1)),
                             FMul(Cell(m, 0, 1), Cell(m, 1, 0)))

\* C1 witness: the determinant of a 4x4 matrix changed by set came out non-zero
C1_Witness ==
    /\ last.op = "determinant" /\ ~last.panicked
    /\ m.width = 4 /\ m.height = 4 /\ sets >= 1
    /\ last.num # F(0)

\* C2 (as stated: violated by the program): for every square invertible
\* matrix M, inverse(M) is the adjugate over the determinant, and M * inverse(M)
\* and inverse(M) * M are the identity; and if A * B = C then C * inverse(B) = A
C2_InverseIsTwoSidedInverse ==
    /\ (last.op = "inverse" /\ IsSquare(m) /\ m.height >= 2
            /\ RefDet(m) # F(0)) =>
          /\ ~last.panicked
          /\ \A row \in 0..(m.height - 1) : \A col \in 0..(m.width - 1) :
                Cell(last.out, col, row)
                    = FDiv(cofactor(m, row, col), determinant(m))
          /\ mul(m, last.out) = identity(m.width)
          /\ mul(last.out, m) = identity(m.width)
    /\ (last.op = "mul" /\ ~last.panicked /\ IsSquare(last.other)
            /\ RefDet(last.other) # F(0)) =>
          /\ inverse_ok(last.other)
          /\ mul(last.out, inverse(last.other)) = m

\* C2, supplementary: the same statement restricted to sizes 3 and 4, where
\* the program's cofactors are determinants of matrices of size 2 and 3
C2_HoldsFromSize3 ==
    /\ (last.op = "inverse" /\ IsSquare(m) /\ m.height >= 3
            /\ RefDet(m) # F(0)) =>
          /\ ~last.panicked
          /\ mul(m, last.out) = identity(m.width)
          /\ mul(last.out, m) = identity(m.width)
    /\ (last.op = "mul" /\ ~last.panicked /\ IsSquare(last.other)
            /\ last.other.height >= 3 /\ RefDet(last.other) # F(0)) =>
          /\ inverse_ok(last.other)
          /\ mul(last.out, inverse(last.other)) = m

\* mat with row `row` and column `col` (0-based) removed, the rest in order
RefSubmatrix(mat, row, col) ==
    [width |-> mat.width - 1, height |-> mat.height - 1,
     elements |->
        [i \in 1..(mat.height - 1) |-> [j \in 1..(mat.width - 1) |->
            mat.elements[IF i <= row THEN i ELSE i + 1]
                        [IF j <= col THEN j ELSE j + 1]]]]

InRange(mat, row, col) == row < mat.height /\ col < mat.width

\* C3 (as stated: violated by the program): for in-range (row, col),
\* submatrix is M without that row and column, minor is the determinant of
\* that submatrix, and cofactor is the minor, negated when row + col is odd
C3_SubmatrixMinorCofactor ==
    /\ (last.op = "submatrix" /\ InRange(m, last.a1, last.a2)) =>
          /\ ~last.panicked
          /\ last.out = RefSubmatrix(m, last.a1, last.a2)
    /\ (last.op = "minor" /\ InRange(m, last.a1, last.a2) /\ IsSquare(m)
            /\ m.height >= 2) =>
          /\ ~last.panicked
          /\ last.num = RefDet(RefSubmatrix(m, last.a1, last.a2))
    /\ (last.op = "cofactor" /\ InRange(m, last.a1, last.a2) /\ IsSquare(m)
            /\ m.height >= 2) =>
          /\ ~last.panicked
          /\ last.num =
               IF (last.a1 + last.a2) % 2 = 0
               THEN RefDet(RefSubmatrix(m, last.a1, last.a2))
               ELSE FSub(F(0), RefDet(RefSubmatrix(m, last.a1, last.a2)))

\* C3, supplementary: the same statement for matrices of size 3 and 4
C3_HoldsFromSize3 ==
    /\ (last.op = "submatrix" /\ InRange(m, last.a1, last.a2)) =>
          /\ ~last.panicked
          /\ last.out = RefSubmatrix(m, last.a1, last.a2)
    /\ (last.op = "minor" /\ InRange(m, last.a1, last.a2) /\ IsSquare(m)
            /\ m.height >= 3) =>
          /\ ~last.panicked
          /\ last.num = RefDet(RefSubmatrix(m, last.a1, last.a2))
    /\ (last.op = "cofactor" /\ InRange(m, last.a1, last.a2) /\ IsSquare(m)
            /\ m.height >= 3) =>
          /\ ~last.panicked
          /\ last.num =
               IF (last.a1 + last.a2) % 2 = 0
               THEN RefDet(RefSubmatrix(m, last.a1, last.a2))
               ELSE FSub(F(0), RefDet(RefSubmatrix(m, last.a1, last.a2)))

\* an aborted call returns nothing: the record holds no result
NoValue(call) ==
    /\ call.num = NoCall.num /\ call.out = NoCall.out
    /\ call.tout = NoCall.tout /\ call.flag = NoCall.flag

\* C4: a precondition violation aborts the call instead of returning a value:
\* determinant() of a non-square matrix, inverse() of a matrix whose
\* determinant is zero (is_invertible is true exactly when determinant() is
\* non-zero), A * B with A.width # B.height, dot / cross of a non-vector
C4_PreconditionViolationsAbort ==
    /\ last.panicked => NoValue(last)
    /\ last.op = "determinant" => (last.panicked <=> ~IsSquare(m))
    /\ (last.op = "inverse" /\ IsSquare(m) /\ RefDet(m) = F(0)) =>
          last.panicked
    /\ last.op = "inverse" => (IsSquare(m) \/ last.panicked)
    /\ (last.op = "is_invertible" /\ ~last.panicked) =>
          /\ last.flag <=> (determinant(m) # F(0))
          /\ last.flag => RefDet(m) # F(0)
    /\ last.op = "mul" => (last.panicked <=> m.width # last.other.height)
    /\ last.op = "mul_left" => (last.panicked <=> last.other.width # m.height)
    /\ last.op \in {"dot", "cross"} =>
          (last.panicked <=> (last.t1.w # F(0) \/ last.t2.w # F(0)))

\* C4 witness: inverse() was called on a singular 4x4 matrix and aborted
C4_Witness ==
    /\ last.op = "inverse" /\ last.panicked
    /\ m.width = 4 /\ m.height = 4 /\ RefDet(m) = F(0)

\* the sum of f[1..n], n <= 4, written out
RefSum(f, n) ==
    CASE n = 0 -> F(0)
      [] n = 1 -> f[1]
      [] n = 2 -> FAdd(f[2], f[1])
      [] n = 3 -> FAdd(f[3], FAdd(f[2], f[1]))
      [] n = 4 -> FAdd(FAdd(f[4], f[3]), FAdd(f[2], f[1]))

\* cell (row, col) of the product a * b: sum over i of a[row][i] * b[i][col]
RefProductCell(a, b, row, col) ==
    RefSum([i \in 1..a.width |-> FMul(Cell(a, row, i - 1), Cell(b, i - 1, col))],
           a.width)

RefProduct(a, b, prod) ==
    /\ prod.height = a.height /\ prod.width = b.width
    /\ WellFormed(prod)
    /\ \A row \in 0..(a.height - 1) : \A col \in 0..(b.width - 1) :
          Cell(prod, row, col) = RefProductCell(a, b, row, col)

\* the 4x1 column matrix (x, y, z, w)
Column(t) == from(<<<<t.x>>, <<t.y>>, <<t.z>>, <<t.w>>>>)

\* C5: A * B has A's height and B's width and cell (row, col) is the sum over
\* i of A[row][i] * B[i][col]; a 4-column matrix times a Tuple is that matrix
\* times the 4x1 column matrix of the tuple
C5_MultiplicationCells ==
    /\ (last.op = "mul" /\ m.width = last.other.height) =>
          ~last.panicked /\ RefProduct(m, last.other, last.out)
    /\ (last.op = "mul_left" /\ last.other.width = m.height) =>
          ~last.panicked /\ RefProduct(last.other, m, last.out)
    /\ (last.op = "mul_tuple" /\ m.width = 4) =>
          /\ ~last.panicked
          /\ last.out = mul(m, Column(last.t1))
          /\ RefProduct(m, Column(last.t1), last.out)

\* C5 witness: a 2x3 matrix was multiplied by a 3x3 matrix
C5_Witness ==
    /\ last.op = "mul" /\ ~last.panicked
    /\ m.height = 2 /\ m.width = 3 /\ last.other.width = 3
    /\ last.out.height = 2 /\ last.out.width = 3

RefIdentity(n) ==
    [width |-> n, height |-> n,
     elements |-> [i \in 1..n |-> [j \in 1..n |->
                      IF i = j THEN F(1) ELSE F(0)]]]

\* C6: M * identity(n) = M for M with n columns, identity(n) * M = M for M
\* with n rows, and identity(n) is n x n with 1 on the diagonal, 0 elsewhere
C6_IdentityComposition ==
    /\ (last.op = "mul" /\ last.other = RefIdentity(m.width)) =>
          ~last.panicked /\ last.out = m
    /\ (last.op = "mul_left" /\ last.other = RefIdentity(m.height)) =>
          ~last.panicked /\ last.out = m
    /\ last.op = "identity" => last.out = RefIdentity(last.a1)

\* C6 witness: a non-square matrix changed by set was multiplied by identity
C6_Witness ==
    /\ last.op = "mul" /\ ~last.panicked /\ sets >= 1
    /\ m.width # m.height
    /\ last.other = RefIdentity(m.width)
    /\ last.out = m

\* C7: get and set abort exactly when row >= height or col >= width; a
\* successful set changes cell (row, col) to v and nothing else, and a get of
\* that cell then returns v
C7_GetSetBoundsAndFrame ==
    /\ last.op = "get" =>
          /\ last.panicked <=> (last.a1 >= m.height \/ last.a2 >= m.width)
          /\ ~last.panicked => last.num = Cell(m, last.a1, last.a2)
    /\ last.op = "set" =>
          LET b == last.before
          IN  /\ last.panicked <=> (last.a1 >= b.height \/ last.a2 >= b.width)
              /\ last.panicked => m = b
              /\ ~last.panicked =>
                    /\ m.width = b.width /\ m.height = b.height
                    /\ WellFormed(m)
                    /\ \A r \in 0..(b.height - 1) : \A c \in 0..(b.width - 1) :
                          Cell(m, r, c) = IF r = last.a1 /\ c = last.a2
                                          THEN last.val ELSE Cell(b, r, c)
                    /\ get_ok(m, last.a1, last.a2)
                    /\ get(m, last.a1, last.a2) = last.val

\* C7 witness: a set on a non-square matrix changed the value of a cell
C7_Witness ==
    /\ last.op = "set" /\ ~last.panicked
    /\ m.width # m.height
    /\ Cell(last.before, last.a1, last.a2) # last.val
    /\ Cell(m, last.a1, last.a2) = last.val

Produces == {"new", "from", "identity", "transpose", "mul", "mul_left",
             "mul_tuple", "submatrix", "inverse", "map_elements"}

\* C8: Matrix::from aborts when the rows are not all of the same length, and
\* every matrix produced by new, from, identity, transpose, multiplication,
\* submatrix, inverse or map_elements has height rows of width elements
C8_MatricesWellFormed ==
    /\ WellFormed(m)
    /\ last.op = "from" =>
          /\ (\E i, j \in 1..Len(last.rows) :
                 Len(last.rows[i]) # Len(last.rows[j])) => last.panicked
          /\ ~last.panicked => last.out.elements = last.rows
    /\ (last.op \in Produces /\ ~last.panicked) => WellFormed(last.out)
    /\ last.op = "new" =>
          last.out.width = last.a1 /\ last.out.height = last.a2
    /\ last.op \in {"transpose"} =>
          last.out.width = m.height /\ last.out.height = m.width
    /\ last.op \in {"map_elements"} =>
          last.out.width = m.width /\ last.out.height = m.height

\* C8 witness: the transpose of a non-square matrix, and it is well-formed
C8_Witness ==
    /\ last.op = "transpose" /\ m.width # m.height
    /\ last.out.width = m.height /\ last.out.height = m.width
    /\ WellFormed(last.out) /\ last.out.height > 0 /\ last.out.width > 0

\* the standalone matrix of one builder call
Standalone(c) ==
    CASE c.op = "translate" -> translation(c.args[1], c.args[2], c.args[3])
      [] c.op = "scale" -> scaling(c.args[1], c.args[2], c.args[3])
      [] c.op = "rotate_x" -> rotation_x(c.args[1])
      [] c.op = "rotate_y" -> rotation_y(c.args[1])
      [] c.op = "rotate_z" -> rotation_z(c.args[1])
      [] c.op = "shear" -> shearing(c.args[1], c.args[2], c.args[3],
                                    c.args[4], c.args[5], c.args[6])

\* Mn * ... * M1 * T, read from the left as Rust reads it: ((Mn * ..) * M1) * T
RECURSIVE ProductDown(_, _)
ProductDown(k, acc) ==
    IF k = 0 THEN mul(acc, base)
    ELSE ProductDown(k - 1, mul(acc, Standalone(chain[k])))

\* Mk * (.. * (M1 * (T * p)))
RECURSIVE AppliedInOrder(_, _)
AppliedInOrder(k, p) ==
    IF k = 0 THEN mul_tuple(base, p)
    ELSE mul(Standalone(chain[k]), AppliedInOrder(k - 1, p))

\* C9: after builder calls op1 .. opn on a base transform T the accumulated
\* matrix is Mn * .. * M1 * T, so applied to a point it is
\* Mn * (.. * (M1 * (T * p))): the operations act in the order written; e.g.
\* transformation().rotate_x(pi/2).scale(5,5,5).translate(10,5,7) maps
\* point (1,0,1) to (15,0,7)
C9_BuildersApplyInWrittenOrder ==
    /\ chain # <<>> =>
          /\ xf = ProductDown(Len(chain) - 1, Standalone(chain[Len(chain)]))
          /\ \A p \in InputPoints :
                mul_tuple(xf, p) = AppliedInOrder(Len(chain), p)
    /\ (/\ base = transformation
        /\ chain = <<[op |-> "rotate_x", args |-> <<1>>],
                     [op |-> "scale", args |-> <<5, 5, 5>>],
                     [op |-> "translate", args |-> <<10, 5, 7>>]>>) =>
          mul_tuple(xf, point(1, 0, 1)) = Column(point(15, 0, 7))

\* C9 witness: rotate_x, scale, translate were chained on the identity
\* transform and the accumulated matrix takes point (1,0,1) to (15,0,7)
C9_Witness ==
    /\ base = transformation
    /\ Len(chain) = 3
    /\ chain[1].op = "rotate_x" /\ chain[2].op = "scale"
    /\ chain[3] = [op |-> "translate", args |-> <<10, 5, 7>>]
    /\ chain[2].args = <<5, 5, 5>>
    /\ mul_tuple(xf, point(1, 0, 1)) = Column(point(15, 0, 7))

\* C10: translation(x,y,z) * p is p shifted by (x,y,z) with w still 1, the
\* inverse translation takes it back to p, and translation(x,y,z) * v = v
\* for every vector v
C10_TranslationShiftsPoints ==
    (chain # <<>> /\ chain[Len(chain)].op = "translate") =>
        LET a == chain[Len(chain)].args
            T == translation(a[1], a[2], a[3])
            back == inverse(T)
        IN  /\ inverse_ok(T)
            /\ \A p \in InputPoints :
                  /\ mul_tuple(T, p)
                       = Column([x |-> FAdd(p.x, F(a[1])),
                                 y |-> FAdd(p.y, F(a[2])),
                                 z |-> FAdd(p.z, F(a[3])),
                                 w |-> F(1)])
                  /\ mul(back, mul_tuple(T, p)) = Column(p)
            /\ \A v \in InputVectors : mul_tuple(T, v) = Column(v)

\* C10 witness: translate(5, -3, 2) was the last builder call, and that
\* translation takes point (-3,4,5) to (2,1,7)
C10_Witness ==
    /\ chain # <<>>
    /\ chain[Len(chain)] = [op |-> "translate", args |-> <<5, -3, 2>>]
    /\ mul_tuple(translation(5, -3, 2), point(-3, 4, 5))
         = Column(point(2, 1, 7))

\* C11: for vectors v and w, v.dot(w) = w.dot(v), and v.cross(w) is the
\* negation of w.cross(v) and is again a vector (w-component 0)
C11_DotCommutesCrossAnticommutes ==
    /\ (last.op = "dot" /\ is_vector(last.t1) /\ is_vector(last.t2)) =>
          /\ ~last.panicked
          /\ dot_ok(last.t2, last.t1)
          /\ last.num = dot(last.t2, last.t1)
    /\ (last.op = "cross" /\ is_vector(last.t1) /\ is_vector(last.t2)) =>
          /\ ~last.panicked
          /\ cross_ok(last.t2, last.t1)
          /\ tuple_eq(last.tout, tuple_neg(cross(last.t2, last.t1)))
          /\ last.tout.w = F(0)

\* C11 witness: the cross product of (1,2,3) and (2,3,4) is (-1,2,-1)
C11_Witness ==
    /\ last.op = "cross" /\ ~last.panicked
    /\ last.t1 = vector(1, 2, 3) /\ last.t2 = vector(2, 3, 4)
    /\ last.tout = vector(-1, 2, -1)

\* two lists holding the same values the same number of times
SameBag(a, b) ==
    /\ Len(a) = Len(b)
    /\ \A t \in HitTs : Cardinality({k \in 1..Len(a) : a[k] = t})
                          = Cardinality({k \in 1..Len(b) : b[k] = t})

\* the t returned for a list, NoHit when nothing is returned
HitT(list) == IF hit(list) = NoHit THEN NoHit ELSE list[hit(list) + 1]

\* C12: hit returns an element of the list with t > 0 and t <= the t of
\* every other element with t > 0; it returns None, without failing, exactly
\* when no element has t > 0 (the empty list, elements with t = 0); the t of
\* the result does not depend on the order of the list
C12_HitIsLeastPositive ==
    outcome.op = "hit" =>
        LET list == outcome.args[1]
            r == outcome.result
        IN  /\ ~outcome.panicked
            /\ (r = NoHit) <=> ~(\E k \in 1..Len(list) : FLt(F(0), list[k]))
            /\ r # NoHit =>
                  /\ r \in 0..(Len(list) - 1)
                  /\ FLt(F(0), list[r + 1])
                  /\ \A k \in 1..Len(list) :
                        FLt(F(0), list[k]) => ~FLt(list[k], list[r + 1])
            /\ \A other \in HitLists :
                  SameBag(list, other) =>
                      HitT(other) = (IF r = NoHit THEN NoHit ELSE list[r + 1])

\* C12 witness: hit on [2, 1] returned the second element, and hit on a
\* list of the same length without a positive t returns None
C12_Witness ==
    /\ outcome.op = "hit" /\ outcome.args[1] = <<F(2), F(1)>>
    /\ outcome.result = 1
    /\ hit(<<F(0), F(-1)>>) = NoHit

\* the ray from (x, y, z) in direction (0, 0, 1)
RayAlongZ(x, y, z) == ray(point(x, y, z), vector(0, 0, 1))

\* C13: against the default unit sphere a ray with direction (0,0,1) from
\* (0,0,-5) gives [4, 6], from (0,1,-5) the double root [5, 5], from
\* (0,2,-5) nothing, from (0,0,0) [-1, 1] and from (0,0,5) [-6, -4]
C13_DefaultSphereIntersections ==
    (outcome.op = "intersect" /\ sphere = sphere_new) =>
        LET r == outcome.args[1]
        IN  /\ r = RayAlongZ(0, 0, -5) =>
                  ~outcome.panicked /\ outcome.result = <<F(4), F(6)>>
            /\ r = RayAlongZ(0, 1, -5) =>
                  ~outcome.panicked /\ outcome.result = <<F(5), F(5)>>
            /\ r = RayAlongZ(0, 2, -5) =>
                  ~outcome.panicked /\ outcome.result = <<>>
            /\ r = RayAlongZ(0, 0, 0) =>
                  ~outcome.panicked /\ outcome.result = <<F(-1), F(1)>>
            /\ r = RayAlongZ(0, 0, 5) =>
                  ~outcome.panicked /\ outcome.result = <<F(-6), F(-4)>>

\* C13 witness: the tangent ray was intersected with the default sphere
C13_Witness ==
    /\ outcome.op = "intersect" /\ sphere = sphere_new
    /\ outcome.args[1] = RayAlongZ(0, 1, -5)
    /\ outcome.result = <<F(5), F(5)>>

\* C14 (as stated: violated by the program): in every state, also the one a
\* failed set_transform leaves behind, inverse_transform = inverse(transform)
C14_CachedInverseNeverStale ==
    /\ inverse_ok(sphere.transform)
    /\ sphere.inverse_transform = inverse(sphere.transform)

\* C14, supplementary: the cached inverse is that of the transform after
\* Sphere::new and after every set_transform call that returns
C14_HoldsAfterReturningCalls ==
    ~outcome.panicked =>
        /\ inverse_ok(sphere.transform)
        /\ sphere.inverse_transform = inverse(sphere.transform)

\* the arguments of the recorded lighting call
LMaterial == outcome.args[1]
LLight == outcome.args[2]
LPosition == outcome.args[3]
LEye == outcome.args[4]
LNormal == outcome.args[5]

\* cosine = light_vector . normal of the recorded call
Cosine == light_dot_normal(LLight, LPosition, LNormal)

\* effective_color * material.ambient of the recorded call
AmbientTerm ==
    rgb(FMul(FMul(LMaterial.color.red, LLight.intensity.red),
             LMaterial.ambient),
        FMul(FMul(LMaterial.color.green, LLight.intensity.green),
             LMaterial.ambient),
        FMul(FMul(LMaterial.color.blue, LLight.intensity.blue),
             LMaterial.ambient))

\* C15 (as stated: violated by the program): whenever cosine <= 0, also
\* when it is exactly 0, the diffuse and the specular contribution are black
\* and the colour returned is effective_color * material.ambient, for every
\* eye direction
C15_NoLightFromBehind ==
    (outcome.op = "lighting" /\ ~outcome.panicked /\ ~FLt(F(0), Cosine)) =>
        LET t == lighting_terms(LMaterial, LLight, LPosition, LEye, LNormal)
        IN  /\ t[2] = BLACK
            /\ t[3] = BLACK
            /\ outcome.result = AmbientTerm

\* C15, supplementary: the same statement for cosine < 0
C15_HoldsBelowZero ==
    (outcome.op = "lighting" /\ ~outcome.panicked /\ FLt(Cosine, F(0))) =>
        LET t == lighting_terms(LMaterial, LLight, LPosition, LEye, LNormal)
        IN  /\ t[2] = BLACK
            /\ t[3] = BLACK
            /\ outcome.result = AmbientTerm

Gray(n, d) == rgb(<<n, d>>, <<n, d>>, <<n, d>>)

\* C16: lighting returns ambient + diffuse + specular without clamping: the
\* default material at (0,0,0) with normal (0,0,-1), eye (0,0,-1) and a white
\* light at (0,0,-10) gives (1.9, 1.9, 1.9), and with the light at (0,0,10)
\* it gives (0.1, 0.1, 0.1)
C16_LightingSumUnclamped ==
    (outcome.op = "lighting" /\ ~outcome.panicked) =>
        LET t == lighting_terms(LMaterial, LLight, LPosition, LEye, LNormal)
        IN  /\ outcome.result.red = FAdd(FAdd(t[1].red, t[2].red), t[3].red)
            /\ outcome.result.green
                 = FAdd(FAdd(t[1].green, t[2].green), t[3].green)
            /\ outcome.result.blue
                 = FAdd(FAdd(t[1].blue, t[2].blue), t[3].blue)
            /\ (/\ LMaterial = material_new /\ LPosition = point(0, 0, 0)
                /\ LNormal = vector(0, 0, -1) /\ LEye = vector(0, 0, -1)
                /\ LLight.intensity = WHITE) =>
                  /\ LLight.position = point(0, 0, -10) =>
                        outcome.result = Gray(19, 10)
                  /\ LLight.position = point(0, 0, 10) =>
                        outcome.result = Gray(1, 10)

\* C16 witness: the eye between the light and the surface, result 1.9
C16_Witness ==
    /\ outcome.op = "lighting" /\ ~outcome.panicked
    /\ LMaterial = material_new /\ LEye = vector(0, 0, -1)
    /\ LLight = point_light(point(0, 0, -10), WHITE)
    /\ outcome.result = Gray(19, 10)
    /\ FLt(F(1), outcome.result.red)

\* black, as Canvas::new writes it
Black == [red |-> F(0), green |-> F(0), blue |-> F(0)]

\* the coordinates inside a canvas
InCanvas(cv, x, y) == x >= 0 /\ x < cv.width /\ y >= 0 /\ y < cv.height

\* C17: a canvas made by Canvas::new(width, height) holds width * height
\* pixels and pixel_at gives black at every x < width, y < height; the buffer
\* still holds width * height pixels after any write_pixel and fill calls
C17_BufferIsWidthTimesHeight ==
    /\ Len(canvas.pixels) = canvas.width * canvas.height
    /\ writes = 0 =>
          \A x \in 0..(canvas.width - 1), y \in 0..(canvas.height - 1) :
              pixel_at_ok(canvas, x, y) /\ pixel_at(canvas, x, y) = Black
    /\ (writes = 0 /\ outcome.op = "pixel_at"
            /\ InCanvas(canvas, outcome.args[1], outcome.args[2])) =>
          ~outcome.panicked /\ outcome.result = <<Black>>

\* a 2 x 1 canvas after a write_pixel and a fill that returned
C17_Witness ==
    /\ canvas.width = 2 /\ canvas.height = 1
    /\ writes >= 2 /\ outcome.op = "fill" /\ ~outcome.panicked
    /\ \E i \in 1..Len(outcome.before.pixels) : outcome.before.pixels[i] # Black

\* C18: after write_pixel(x, y, c) with x < width and y < height, pixel_at(x, y)
\* is c and pixel_at of every other in-range coordinate is what it was: the
\* in-range coordinates have distinct buffer indices
C18_WriteChangesOnePixel ==
    /\ (outcome.op = "write_pixel"
            /\ InCanvas(outcome.before, outcome.args[1], outcome.args[2])) =>
          /\ ~outcome.panicked
          /\ pixel_at_ok(canvas, outcome.args[1], outcome.args[2])
          /\ pixel_at(canvas, outcome.args[1], outcome.args[2])
                = outcome.args[3]
          /\ \A x \in 0..(canvas.width - 1), y \in 0..(canvas.height - 1) :
                <<x, y>> # <<outcome.args[1], outcome.args[2]>> =>
                    /\ pixel_at_ok(canvas, x, y)
                    /\ pixel_at_ok(outcome.before, x, y)
                    /\ pixel_at(canvas, x, y) = pixel_at(outcome.before, x, y)
    /\ \A x1 \in 0..(canvas.width - 1), y1 \in 0..(canvas.height - 1),
          x2 \in 0..(canvas.width - 1), y2 \in 0..(canvas.height - 1) :
            <<x1, y1>> # <<x2, y2>> =>
                index(canvas, x1, y1) # index(canvas, x2, y2)

\* a second write to a 2 x 1 canvas, at another pixel than the first
C18_Witness ==
    /\ outcome.op = "write_pixel" /\ ~outcome.panicked
    /\ canvas.width = 2 /\ canvas.height = 1
    /\ outcome.args[1] = 1 /\ outcome.args[2] = 0
    /\ pixel_at(canvas, 0, 0) # Black
    /\ pixel_at(canvas, 0, 0) # pixel_at(canvas, 1, 0)

\* C19: write_pixel(x, y, c) and pixel_at(x, y) with x >= width or y >= height
\* fail, and the canvas is as it was
C19_OutOfRangeFails ==
    (outcome.op \in {"write_pixel", "pixel_at"}
        /\ ~InCanvas(outcome.before, outcome.args[1], outcome.args[2])) =>
            outcome.panicked /\ canvas = outcome.before

\* what does hold: a call with x >= width fails and the canvas is as it was
C19_ColumnOutOfRangeFails ==
    (outcome.op \in {"write_pixel", "pixel_at"}
        /\ outcome.args[1] >= outcome.before.width) =>
            outcome.panicked /\ canvas = outcome.before

\* the text starts with prefix
StartsWith(text, prefix) ==
    Len(text) >= Len(prefix) /\ SubSeq(text, 1, Len(prefix)) = prefix

\* the header of a canvas whose width and height are below 10
Header(cv) ==
    <<"P", "3", "\n", DigitChar(cv.width), " ", DigitChar(cv.height), "\n",
      "2", "5", "5", "\n">>

\* C20: the text of render_as_ppm starts with the lines "P3",
\* "<width> <height>", "255", and its last character is a newline, so every
\* line of it, the last scanline included, is terminated
C20_HeaderAndFinalNewline ==
    outcome.op = "render_as_ppm" =>
        /\ StartsWith(outcome.result, Header(canvas))
        /\ outcome.result[Len(outcome.result)] = "\n"

\* a 1 x 2 canvas with a written pixel is rendered: two scanlines
C20_Witness ==
    /\ outcome.op = "render_as_ppm"
    /\ canvas.width = 1 /\ canvas.height = 2 /\ writes >= 1
    /\ Len(outcome.result) > Len(Header(canvas)) + 2

\* the text of pixel (x, y)
PixelText(cv, x, y) == color_render_as_ppm(cv.pixels[x * cv.height + y + 1])

\* the length of the line that pixel x of scanline y ends, when a line is
\* broken before a pixel exactly when the pixel would take it past 70
RECURSIVE LineFilled(_, _, _)
LineFilled(cv, y, x) ==
    IF x = 0 THEN Len(PixelText(cv, 0, y))
    ELSE LET prev == LineFilled(cv, y, x - 1)
             len == Len(PixelText(cv, x, y))
         IN  IF prev + len > 70 THEN len ELSE prev + len

BreakBefore(cv, y, x) ==
    x > 0 /\ LineFilled(cv, y, x - 1) + Len(PixelText(cv, x, y)) > 70

\* scanline y up to pixel x, broken at those places
RECURSIVE RowText(_, _, _)
RowText(cv, y, x) ==
    IF x < 0 THEN <<>>
    ELSE RowText(cv, y, x - 1)
            \o (IF BreakBefore(cv, y, x) THEN <<"\n">> ELSE <<>>)
            \o PixelText(cv, x, y)

\* the scanlines up to row y, each ended by a newline
RECURSIVE DataText(_, _)
DataText(cv, y) ==
    IF y < 0 THEN <<>>
    ELSE DataText(cv, y - 1) \o RowText(cv, y, cv.width - 1) \o <<"\n">>

\* C21: in the text of render_as_ppm every 71 consecutive characters hold a
\* newline (no line is longer than 70), a newline of the pixel data follows a
\* space or a newline (never a digit), and a scanline is broken before a
\* pixel exactly when the pixel's text would take the line past 70
C21_LinesWrappedAtSeventy ==
    outcome.op = "render_as_ppm" =>
        LET text == outcome.result
        IN  /\ \A i \in 1..(Len(text) - 70) :
                  \E j \in i..(i + 70) : text[j] = "\n"
            /\ \A i \in (Len(Header(canvas)) + 1)..Len(text) :
                  text[i] = "\n" => text[i - 1] \in {" ", "\n"}
            /\ text = Header(canvas) \o DataText(canvas, canvas.height - 1)

\* the 9 x 2 canvas filled with (1, 0.8, 0.6) is rendered: each scanline is a
\* line of 5 pixels and a line of 4
C21_Witness ==
    /\ outcome.op = "render_as_ppm"
    /\ canvas.width = 9 /\ canvas.height = 2
    /\ \A i \in 1..Len(canvas.pixels) :
          canvas.pixels[i] = rgb(F(1), <<4, 5>>, <<3, 5>>)
    /\ LET text == outcome.result
           h == Len(Header(canvas))
       IN  /\ Len(text) = h + 2 * (9 * 12 + 2)
           /\ {i \in (h + 1)..Len(text) : text[i] = "\n"}
                = {h + 61, h + 110, h + 171, h + 220}

\* the least integer not below 255 * v, for v clamped to [0, 1]
Encoding(v) ==
    IF v[1] <= 0 THEN 0
    ELSE IF v[1] >= v[2] THEN 255
    ELSE CHOOSE n \in 0..255 :
            n * v[2] >= 255 * v[1] /\ (n - 1) * v[2] < 255 * v[1]

Numeral(n) ==
    LET d == <<"0", "1", "2", "3", "4", "5", "6", "7", "8", "9">>
    IN  IF n < 10 THEN <<d[n + 1]>>
        ELSE IF n < 100 THEN <<d[(n \div 10) + 1], d[(n % 10) + 1]>>
        ELSE <<d[(n \div 100) + 1], d[((n \div 10) % 10) + 1], d[(n % 10) + 1]>>

\* pixel k in scanline order, k from 0
ScanPixel(cv, k) == cv.pixels[(k % cv.width) * cv.height + (k \div cv.width) + 1]

\* the rendered text after the header, and the same without its newlines
Data(cv, text) == SubSeq(text, Len(Header(cv)) + 1, Len(text))
Unbroken(text) == SelectSeq(text, LAMBDA ch : ch # "\n")

\* the channels of pixels 0..k in scanline order, each as Encoding and a space
RECURSIVE EncodedUpTo(_, _)
EncodedUpTo(cv, k) ==
    IF k < 0 THEN <<>>
    ELSE EncodedUpTo(cv, k - 1)
            \o Numeral(Encoding(ScanPixel(cv, k).red)) \o <<" ">>
            \o Numeral(Encoding(ScanPixel(cv, k).green)) \o <<" ">>
            \o Numeral(Encoding(ScanPixel(cv, k).blue)) \o <<" ">>

\* C22: every channel in the text of render_as_ppm is ceil(255 * clamp(v, 0, 1))
\* of the stored value v, an integer of 0..255 (0 for v <= 0, 255 for v >= 1,
\* 128 for 0.5), and rendering leaves the stored colours as they are
C22_ChannelsClampedAndRoundedUp ==
    /\ Encoding(<<1, 2>>) = 128
    /\ outcome.op = "render_as_ppm" =>
          /\ Unbroken(Data(canvas, outcome.result))
                = EncodedUpTo(canvas, canvas.width * canvas.height - 1)
          /\ canvas = outcome.before

\* a canvas holding (1.5, 0.5, -0.5) is rendered: "255 128 0 ", and the stored
\* colour is still (1.5, 0.5, -0.5)
C22_Witness ==
    /\ outcome.op = "render_as_ppm"
    /\ canvas.width = 1 /\ canvas.height = 1
    /\ canvas.pixels[1] = [red |-> <<3, 2>>, green |-> <<1, 2>>, blue |-> <<-1, 2>>]
    /\ Data(canvas, outcome.result)
          = <<"2", "5", "5", " ", "1", "2", "8", " ", "0", " ", "\n">>

\* the texts of pixels 0..k in scanline order
RECURSIVE PixelsUpTo(_, _)
PixelsUpTo(cv, k) ==
    IF k < 0 THEN <<>>
    ELSE PixelsUpTo(cv, k - 1) \o PixelText(cv, k % cv.width, k \div cv.width)

\* C23: the pixel data of render_as_ppm is 3 * width * height integers, each
\* followed by one space: the pixels in scanline order, pixel k being
\* pixel_at(k mod width, k div width), and each scanline starts a line
C23_PixelDataInScanlineOrder ==
    outcome.op = "render_as_ppm" =>
        LET data == Data(canvas, outcome.result)
            count == canvas.width * canvas.height
        IN  /\ Unbroken(data) = PixelsUpTo(canvas, count - 1)
            /\ Len(SelectSeq(data, LAMBDA ch : ch = " ")) = 3 * count
            /\ \A i \in 1..Len(data) :
                  data[i] = " " =>
                      /\ i > 1
                      /\ data[i - 1] \in {"0", "1", "2", "3", "4", "5", "6",
                                          "7", "8", "9"}
            /\ \A y \in 0..(canvas.height - 1) :
                  \E i \in 0..Len(data) :
                      /\ i = 0 \/ data[i] = "\n"
                      /\ Len(Unbroken(SubSeq(data, 1, i)))
                            = Len(PixelsUpTo(canvas, y * canvas.width - 1))

\* a 2 x 2 canvas whose pixels (1, 0) and (0, 1) differ is rendered
C23_Witness ==
    /\ outcome.op = "render_as_ppm"
    /\ canvas.width = 2 /\ canvas.height = 2
    /\ canvas.pixels[3] # canvas.pixels[2]
    /\ canvas.pixels[3] # Black

\* the colour (1, 0.8, 0.6) in every pixel
Solid(cv) ==
    \A i \in 1..Len(cv.pixels) :
        cv.pixels[i] = [red |-> <<1, 1>>, green |-> <<4, 5>>, blue |-> <<3, 5>>]

\* the positions of the newlines of a text
Newlines(text) == {i \in 1..Len(text) : text[i] = "\n"}

\* C24 as stated: the 5 x 3 canvas filled with (1, 0.8, 0.6) is rendered as
\* two scanlines of two lines each, and the text ends with a newline
C24_FiveByThreeWrapsTwoScanlines ==
    (outcome.op = "render_as_ppm" /\ canvas.width = 5 /\ canvas.height = 3
        /\ Solid(canvas)) =>
            LET data == Data(canvas, outcome.result)
            IN  /\ Len(SelectSeq(data, LAMBDA ch : ch = "\n")) = 2 * 2
                /\ data[Len(data)] = "\n"

\* C24, amended: fill stores its colour in every pixel, and the 9 x 2 canvas
\* filled with (1, 0.8, 0.6) is rendered as two scanlines of two lines each,
\* 5 pixels then 4, the text ending with a newline; the 5 x 3 canvas is
\* rendered as three scanlines of one line each
C24_NineByTwoWrapsTwoScanlines ==
    /\ (outcome.op = "fill" /\ ~outcome.panicked) =>
          \A i \in 1..Len(canvas.pixels) : canvas.pixels[i] = outcome.args[1]
    /\ (outcome.op = "render_as_ppm" /\ Solid(canvas)
            /\ canvas.width = 9 /\ canvas.height = 2) =>
          LET data == Data(canvas, outcome.result)
          IN  /\ Newlines(data) = {5 * 12 + 1, 110, 110 + 5 * 12 + 1, 220}
              /\ Len(data) = 220
    /\ (outcome.op = "render_as_ppm" /\ Solid(canvas)
            /\ canvas.width = 5 /\ canvas.height = 3) =>
          LET data == Data(canvas, outcome.result)
          IN  /\ Newlines(data) = {61, 122, 183}
              /\ Len(data) = 183

\* the 9 x 2 canvas is rendered right after the fill with (1, 0.8, 0.6)
C24_Witness ==
    /\ outcome.op = "render_as_ppm" /\ writes = 1
    /\ canvas.width = 9 /\ canvas.height = 2 /\ Solid(canvas)
    /\ Len(outcome.result) = Len(Header(canvas)) + 220

\* the buffer that holds the colour of every call made and black elsewhere
Painted(cv, done) ==
    [i \in 1..(cv.width * cv.height) |->
        IF \E p \in done : p[1] * cv.height + p[2] + 1 = i
        THEN (CHOOSE p \in done : p[1] * cv.height + p[2] + 1 = i)[3]
        ELSE Black]

\* C25: after write_pixel calls on pairwise distinct in-range coordinates,
\* made in any order, the buffer is the one fixed by the set of calls alone,
\* no call fails, and distinct coordinates have distinct indices
C25_BufferIndependentOfWriteOrder ==
    outcome.op = "paint" =>
        /\ ~outcome.panicked
        /\ canvas.pixels = Painted(canvas, outcome.painted)
        /\ \A p \in outcome.painted, q \in outcome.painted :
              <<p[1], p[2]>> # <<q[1], q[2]>> =>
                  index(canvas, p[1], p[2]) # index(canvas, q[1], q[2])

\* every pixel of a 2 x 2 canvas written, in two colours
C25_Witness ==
    /\ outcome.op = "paint"
    /\ canvas.width = 2 /\ canvas.height = 2
    /\ {<<p[1], p[2]>> : p \in outcome.painted} = (0..1) \X (0..1)
    /\ canvas.pixels[1] # canvas.pixels[2]

\* the point of a normal_at call, in the coordinates of the sphere
ObjectPoint ==
    LET inv == sphere.inverse_transform
        p == outcome.args[1]
    IN  [c \in 1..3 |->
            FAdd(FAdd(FMul(Cell(inv, c - 1, 0), p.x),
                      FMul(Cell(inv, c - 1, 1), p.y)),
                 FAdd(FMul(Cell(inv, c - 1, 2), p.z),
                      FMul(Cell(inv, c - 1, 3), p.w)))]

\* the transpose of the inverse transform applied to ObjectPoint - origin,
\* x, y and z only
ObjectNormal ==
    LET inv == sphere.inverse_transform
        q == ObjectPoint
    IN  [c \in 1..3 |->
            FAdd(FAdd(FMul(Cell(inv, 0, c - 1), q[1]),
                      FMul(Cell(inv, 1, c - 1), q[2])),
                 FMul(Cell(inv, 2, c - 1), q[3]))]

\* t is n scaled to length 1, with w = 0
UnitOf(t, n) ==
    /\ t.w = <<0, 1>>
    /\ FAdd(FAdd(FMul(t.x, t.x), FMul(t.y, t.y)), FMul(t.z, t.z)) = <<1, 1>>
    /\ \E len \in {FDiv(n[c], <<t.x, t.y, t.z>>[c]) :
                      c \in {d \in 1..3 : n[d] # <<0, 1>>}} :
          /\ FLt(<<0, 1>>, len)
          /\ n = <<FMul(t.x, len), FMul(t.y, len), FMul(t.z, len)>>

\* C26 as stated: normal_at returns a vector (w exactly 0)
\* for every transform and point: the point mapped by the inverse transform, less the origin, times
\* the transpose of the inverse transform, w set to 0, scaled to length 1;
\* on the default sphere the normals at (1,0,0), (0,1,0), (0,0,1), (0,0,-1)
\* are these vectors
C26_NormalIsAUnitVector ==
    (outcome.op = "normal_at" /\ ~outcome.panicked) =>
        /\ outcome.result.w = <<0, 1>>
        /\ UnitOf(outcome.result, ObjectNormal)
        /\ (sphere.transform = RefIdentity(4)
                /\ outcome.args[1] \in {point(1, 0, 0), point(0, 1, 0),
                                        point(0, 0, 1), point(0, 0, -1)}) =>
              outcome.result = [outcome.args[1] EXCEPT !.w = <<0, 1>>]

\* what does hold: the same for every transform and every point that is not
\* the centre of the sphere
C26_HoldsOffCentre ==
    (outcome.op = "normal_at" /\ ~outcome.panicked
        /\ ObjectPoint # <<F(0), F(0), F(0)>>) =>
        /\ outcome.result.w = <<0, 1>>
        /\ UnitOf(outcome.result, ObjectNormal)
        /\ (sphere.transform = RefIdentity(4)
                /\ outcome.args[1] \in {point(1, 0, 0), point(0, 1, 0),
                                        point(0, 0, 1), point(0, 0, -1)}) =>
              outcome.result = [outcome.args[1] EXCEPT !.w = <<0, 1>>]

\* at the centre of the sphere every component of the result is NaN
C26_NaNAtCentre ==
    (outcome.op = "normal_at" /\ ~outcome.panicked
        /\ ObjectPoint = <<F(0), F(0), F(0)>>) =>
            outcome.result = [x |-> NaN, y |-> NaN, z |-> NaN, w |-> NaN]

\* the normal of the sphere translated by (5, 0, 0) at (6, 0, 0): the product
\* with the transposed inverse has w = -5, the normal has w = 0
C26_TranslatedNormal ==
    (outcome.op = "normal_at" /\ ~outcome.panicked
        /\ sphere.transform = translation(5, 0, 0)
        /\ outcome.args[1] = point(6, 0, 0)) =>
            /\ outcome.result = vector(1, 0, 0)
            /\ Cell(sphere.inverse_transform, 0, 3) = F(-5)

\* the normal of the turned and stretched sphere at SlantedPoint is
\* (4/13, 3/13, 12/13): the transposed inverse takes the object point
\* (3/7, -2/7, 6/7) to (2/7, 3/14, 6/7), where the inverse itself would give
\* (-1/7, -3/7, 6/7) and the transform (2/7, 6/7, 6/7)
C26_TurnedNormal ==
    (outcome.op = "normal_at" /\ ~outcome.panicked
        /\ sphere.transform = TurnedAndStretched
        /\ outcome.args[1] = SlantedPoint) =>
            /\ ObjectPoint = <<<<3, 7>>, <<-2, 7>>, <<6, 7>>>>
            /\ ObjectNormal = <<<<2, 7>>, <<3, 14>>, <<6, 7>>>>
            /\ outcome.result = [x |-> <<4, 13>>, y |-> <<3, 13>>,
                                 z |-> <<12, 13>>, w |-> F(0)]

\* normal_at has answered for SlantedPoint on the turned and stretched
\* sphere, whose inverse transform is not symmetric
C26_Witness ==
    /\ outcome.op = "normal_at" /\ ~outcome.panicked
    /\ sphere.transform = TurnedAndStretched
    /\ sphere.inverse_transform # transpose(sphere.inverse_transform)
    /\ outcome.args[1] = SlantedPoint
    /\ outcome.result.x = <<4, 13>>

\* x, y and z of the matrix inv applied to the tuple p
Mapped(inv, p) ==
    [c \in 1..3 |->
        FAdd(FAdd(FMul(Cell(inv, c - 1, 0), p.x),
                  FMul(Cell(inv, c - 1, 1), p.y)),
             FAdd(FMul(Cell(inv, c - 1, 2), p.z),
                  FMul(Cell(inv, c - 1, 3), p.w)))]

Dot3(u, v) ==
    FAdd(FAdd(FMul(u[1], v[1]), FMul(u[2], v[2])), FMul(u[3], v[3]))

\* the ray of an intersect call in the coordinates of the sphere, and the
\* coefficients of its quadratic
RayOrigin == Mapped(sphere.inverse_transform, outcome.args[1].origin)
RayDirection == Mapped(sphere.inverse_transform, outcome.args[1].direction)
CoefA == Dot3(RayDirection, RayDirection)
CoefB == FMul(F(2), Dot3(RayDirection, RayOrigin))
CoefC == FSub(Dot3(RayOrigin, RayOrigin), F(1))

\* t is a number, and position(t) of the ray lies on the sphere
OnSphere(t) ==
    /\ t[2] # 0
    /\ LET q == Mapped(sphere.inverse_transform,
                       ray_position(outcome.args[1], t))
       IN  Dot3(q, q) = <<1, 1>>

\* the result of an intersect call is the empty list exactly when the
\* discriminant is negative, and else two roots t1 <= t2 of the quadratic
MissOrTwoRoots ==
    LET ts == outcome.result
    IN  /\ ts = <<>> <=>
              FLt(FSub(FMul(CoefB, CoefB), FMul(FMul(F(4), CoefA), CoefC)),
                  F(0))
        /\ ts # <<>> =>
              /\ Len(ts) = 2
              /\ OnSphere(ts[1]) /\ OnSphere(ts[2])
              /\ ~FLt(ts[2], ts[1])
              /\ FAdd(FAdd(FMul(FMul(CoefA, ts[1]), ts[1]),
                           FMul(CoefB, ts[1])), CoefC) = <<0, 1>>
              /\ FAdd(FAdd(FMul(FMul(CoefA, ts[2]), ts[2]),
                           FMul(CoefB, ts[2])), CoefC) = <<0, 1>>

\* the two rays of the tests
TestRays ==
    /\ (sphere.transform = scaling(2, 2, 2)
            /\ outcome.args[1] = ray(point(0, 0, -5), vector(0, 0, 1))) =>
          outcome.result = <<F(3), F(7)>>
    /\ (sphere.transform = translation(5, 0, 0)
            /\ outcome.args[1] = ray(point(0, 0, -5), vector(0, 0, 1))) =>
          outcome.result = <<>>

\* C27 as stated: for every transform and every ray, intersect returns the
\* empty list exactly when the discriminant is negative and else two roots
\* t1 <= t2 of the quadratic of the ray mapped by the cached inverse
C27_MissOrTwoRootsForEveryRay ==
    (outcome.op = "intersect" /\ ~outcome.panicked) =>
        MissOrTwoRoots /\ TestRays

\* C27, amended: the same for every ray whose direction is not the zero
\* vector (a > 0)
C27_MissOrTwoRootsForMovingRays ==
    (outcome.op = "intersect" /\ ~outcome.panicked
        /\ outcome.args[1].direction # vector(0, 0, 0)) =>
            MissOrTwoRoots /\ TestRays

\* the ray from (0, 0, -5) along z meets the sphere scaled by 2 at 3 and 7
C27_Witness ==
    /\ outcome.op = "intersect" /\ ~outcome.panicked
    /\ sphere.transform = scaling(2, 2, 2)
    /\ sphere.inverse_transform # RefIdentity(4)
    /\ outcome.result = <<F(3), F(7)>>

\* reflect_cosine = reflect(-light_vector, normal) . eye of the recorded call
ReflectCosine == reflect_dot_eye(LLight, LPosition, LEye, LNormal)

\* effective_color * material.diffuse * cosine of the recorded call
DiffuseTerm ==
    rgb(FMul(FMul(FMul(LMaterial.color.red, LLight.intensity.red),
                  LMaterial.diffuse), Cosine),
        FMul(FMul(FMul(LMaterial.color.green, LLight.intensity.green),
                  LMaterial.diffuse), Cosine),
        FMul(FMul(FMul(LMaterial.color.blue, LLight.intensity.blue),
                  LMaterial.diffuse), Cosine))

\* light.intensity * material.specular * reflect_cosine ^ shininess
SpecularTerm ==
    LET factor == FMul(LMaterial.specular,
                       powf(ReflectCosine, LMaterial.shininess))
    IN  rgb(FMul(LLight.intensity.red, factor),
            FMul(LLight.intensity.green, factor),
            FMul(LLight.intensity.blue, factor))

\* the sum of three colours
Sum3(a, b, c) ==
    rgb(FAdd(FAdd(a.red, b.red), c.red),
        FAdd(FAdd(a.green, b.green), c.green),
        FAdd(FAdd(a.blue, b.blue), c.blue))

\* C28: in lighting with cosine > 0 the specular term is black whenever
\* reflect_cosine <= 0, exactly 0 included and for every shininess, and else
\* light.intensity * material.specular * reflect_cosine ^ shininess
C28_SpecularBlackAtOrBelowZero ==
    (outcome.op = "lighting" /\ ~outcome.panicked /\ FLt(F(0), Cosine)) =>
        outcome.result =
            Sum3(AmbientTerm, DiffuseTerm,
                 IF FLt(F(0), ReflectCosine) THEN SpecularTerm ELSE Black)

\* what does hold: the same, when reflect_cosine is not 0 or the shininess is
\* above 0
C28_HoldsForPositiveShininess ==
    (outcome.op = "lighting" /\ ~outcome.panicked /\ FLt(F(0), Cosine)
        /\ (ReflectCosine # F(0) \/ LMaterial.shininess > 0)) =>
        outcome.result =
            Sum3(AmbientTerm, DiffuseTerm,
                 IF FLt(F(0), ReflectCosine) THEN SpecularTerm ELSE Black)

\* C29: for every 1x1 matrix [a], determinant() returns a and is_invertible()
\* is true exactly when a is not 0
C29_OneByOneDeterminant ==
    (IsSquare(m) /\ m.width = 1) =>
        /\ last.op = "determinant" =>
              ~last.panicked /\ last.num = Cell(m, 0, 0)
        /\ last.op = "is_invertible" =>
              ~last.panicked /\ (last.flag <=> Cell(m, 0, 0) # F(0))

\* what does hold: on a 1x1 matrix both calls return, determinant() with 0
\* and is_invertible() with false, whatever a is
C29_OneByOneDeterminantIsZero ==
    (IsSquare(m) /\ m.width = 1) =>
        /\ last.op = "determinant" => ~last.panicked /\ last.num = F(0)
        /\ last.op = "is_invertible" => ~last.panicked /\ ~last.flag

\* the rounded position of the projectile a draw_on call was made on
DrawnX == round(outcome.args[1].position.x)
DrawnY == round(outcome.args[1].position.y)

\* cv with the pixel of column x and row y red, and nothing else changed
RedAt(cv, x, y) ==
    [cv EXCEPT !.pixels =
        [i \in 1..Len(cv.pixels) |->
            IF i = x * cv.height + y + 1
            THEN [red |-> F(1), green |-> F(0), blue |-> F(0)]
            ELSE cv.pixels[i]]]

\* C30: draw_on is reached only when is_out_of_bounds is false, and then, with
\* (x, y) the rounded position, x < width and the row height - y is < height:
\* the write does not fail and changes the pixel (x, height - y) and no other
C30_DrawnPixelInsideCanvas ==
    outcome.op = "draw_on" =>
        LET cv == outcome.before
        IN  /\ DrawnX >= 0 /\ DrawnY >= 0
            /\ DrawnX <= cv.width /\ DrawnY <= cv.height
            /\ DrawnX < cv.width
            /\ cv.height - DrawnY < cv.height
            /\ ~outcome.panicked
            /\ canvas = RedAt(cv, DrawnX, cv.height - DrawnY)

\* what does hold: the same when x < width and y >= 1
C30_HoldsInsideTheEdges ==
    (outcome.op = "draw_on" /\ DrawnX < outcome.before.width /\ DrawnY >= 1) =>
        LET cv == outcome.before
        IN  /\ DrawnX >= 0 /\ DrawnY <= cv.height
            /\ cv.height - DrawnY < cv.height
            /\ ~outcome.panicked
            /\ canvas = RedAt(cv, DrawnX, cv.height - DrawnY)

\* with y = 0 the row is the height: the write lands on (x + 1, 0) when
\* x + 1 < width, and fails when x + 1 >= width
C30_RowZeroLandsInNextColumn ==
    (outcome.op = "draw_on" /\ DrawnY = 0) =>
        LET cv == outcome.before
        IN  IF DrawnX + 1 < cv.width
            THEN ~outcome.panicked /\ canvas = RedAt(cv, DrawnX + 1, 0)
            ELSE outcome.panicked /\ canvas = cv

============================================================================
